---- MODULE Spec2Model ----
(***************************************************************************)
(* Fnloc: per-function metrics (line composition, cyclomatic complexity,   *)
(* nesting depth).  The syntax tree that syn hands to the calculators is   *)
(* modelled as nested records tagged by `kind`; an Option is a sequence of *)
(* length 0 (None) or 1 (Some).                                            *)
(***************************************************************************)
EXTENDS Integers, Sequences, FiniteSets, TLC

VARIABLES
    stmts,          \* statements of the block of the function being parsed
    used,           \* syntax nodes the parser has produced so far (weighted)
    pc,             \* "build" while the tree is produced, "done" once analysed
    complexity,     \* result of calculate_cyclomatic_complexity
    nesting_depth,  \* result of calculate_nesting_depth
    parsed,         \* outcome of syn::parse_file(source): [ok, items]
    function_name,  \* the name looked up in the parsed source
    span,           \* FunctionSpan: [name, lines]
    result,         \* FunctionAnalysisResult, or NoResult
    cli,            \* Client: the parsed command line
    walk,           \* what WalkDir yields under cli.directory, in walk order
    disk,           \* the files behind the paths: readable?, text, parse outcome
    files,          \* the Result of find_rust_files / the file_paths argument
    all_results,    \* Vec<FunctionAnalysisResult> of analyze_all_files
    output,         \* the lines printed so far
    stack,          \* pending calls of a traversal
    visits          \* syntax nodes a traversal has entered

runVars == <<cli, walk, disk, files, all_results, output>>

vars == <<stmts, used, pc, complexity, nesting_depth, parsed, function_name, span, result,
          cli, walk, disk, files, all_results, output, stack, visits>>

\* ------------------------------------------------------------------ bounds
MaxCost == 3
MaxArms == 2
MaxItems == 2
MaxLines == 3

\* ------------------------------------------------------------- syntax tree
None == <<>>
Some(x) == <<x>>

Lit == [kind |-> "Lit"]
Path == [kind |-> "Path"]
ExprMacro == [kind |-> "Macro"]
Continue == [kind |-> "Continue"]
If(c, t, e) == [kind |-> "If", cond |-> c, then_branch |-> t, else_branch |-> e]
Arm(g, b) == [guard |-> g, body |-> b]
Match(x, a) == [kind |-> "Match", expr |-> x, arms |-> a]
While(c, b) == [kind |-> "While", cond |-> c, body |-> b]
ForLoop(x, b) == [kind |-> "ForLoop", expr |-> x, body |-> b]
Loop(b) == [kind |-> "Loop", body |-> b]
Binary(o, l, r) == [kind |-> "Binary", op |-> o, left |-> l, right |-> r]
Try(x) == [kind |-> "Try", expr |-> x]
Return(ox) == [kind |-> "Return", expr |-> ox]
Break(ox) == [kind |-> "Break", expr |-> ox]
Block(b) == [kind |-> "Block", block |-> b]
Unsafe(b) == [kind |-> "Unsafe", block |-> b]
Async(b) == [kind |-> "Async", block |-> b]
Closure(x) == [kind |-> "Closure", body |-> x]
Call(f, a) == [kind |-> "Call", func |-> f, args |-> a]
MethodCall(r, a) == [kind |-> "MethodCall", receiver |-> r, args |-> a]
Array(xs) == [kind |-> "Array", elems |-> xs]
Tuple(xs) == [kind |-> "Tuple", elems |-> xs]
Field(x) == [kind |-> "Field", base |-> x]
Index(x, i) == [kind |-> "Index", expr |-> x, index |-> i]
Assign(l, r) == [kind |-> "Assign", left |-> l, right |-> r]
Reference(x) == [kind |-> "Reference", expr |-> x]
Unary(x) == [kind |-> "Unary", expr |-> x]
Cast(x) == [kind |-> "Cast", expr |-> x]
Range(s, e) == [kind |-> "Range", start |-> s, end |-> e]
Struct(fs, r) == [kind |-> "Struct", fields |-> fs, rest |-> r]
Paren(x) == [kind |-> "Paren", expr |-> x]
Group(x) == [kind |-> "Group", expr |-> x]
\* variants the calculators have no case for, with a sub-expression of their own
Await(x) == [kind |-> "Await", base |-> x]
Let(x) == [kind |-> "Let", expr |-> x]

StmtExpr(x) == [kind |-> "Expr", expr |-> x]
StmtLocal(oi) == [kind |-> "Local", init |-> oi]
StmtItem(i) == [kind |-> "Item", item |-> i]
StmtMacro == [kind |-> "Macro"]
ItemFn(n, b) == [kind |-> "Fn", name |-> n, block |-> b]
ItemOther == [kind |-> "Other"]

Max(a, b) == IF a >= b THEN a ELSE b

\* ---------------------------------------------------- cyclomatic complexity
RECURSIVE analyze_expression(_)
RECURSIVE analyze_block(_)
RECURSIVE analyze_statement(_)
RECURSIVE analyze_match_arm(_)
RECURSIVE analyze_item(_)
RECURSIVE calculate_cyclomatic_complexity(_)
RECURSIVE SumExpressions(_)
RECURSIVE SumArms(_)

\* `for x in xs { complexity += analyze_expression(x) }`, also over an Option
SumExpressions(xs) ==
    IF xs = <<>> THEN 0
    ELSE analyze_expression(Head(xs)) + SumExpressions(Tail(xs))

SumArms(arms) ==
    IF arms = <<>> THEN 0
    ELSE analyze_match_arm(Head(arms)) + SumArms(Tail(arms))

analyze_block(block) ==
    IF block = <<>> THEN 0
    ELSE analyze_statement(Head(block)) + analyze_block(Tail(block))

calculate_cyclomatic_complexity_no_base(f) == analyze_block(f.block)

calculate_cyclomatic_complexity(f) == 1 + analyze_block(f.block)

analyze_item(item) ==
    IF item.kind = "Fn" THEN calculate_cyclomatic_complexity(item) ELSE 0

analyze_statement(stmt) ==
    CASE stmt.kind = "Expr" -> analyze_expression(stmt.expr)
      [] stmt.kind = "Local" -> SumExpressions(stmt.init)
      [] stmt.kind = "Item" -> analyze_item(stmt.item)
      [] stmt.kind = "Macro" -> 0

analyze_match_arm_unguarded_only(arm) ==
    (IF arm.guard = None THEN 1 ELSE 0)
        + SumExpressions(arm.guard) + analyze_expression(arm.body)

analyze_match_arm(arm) ==
    1 + SumExpressions(arm.guard) + analyze_expression(arm.body)

complexity_If_else_counts(e) ==
    1 + analyze_expression(e.cond) + analyze_block(e.then_branch)
      + (IF e.else_branch # None THEN 1 ELSE 0) + SumExpressions(e.else_branch)

complexity_If(e) ==
    1 + analyze_expression(e.cond) + analyze_block(e.then_branch)
      + SumExpressions(e.else_branch)

complexity_Match(e) == 1 + analyze_expression(e.expr) + SumArms(e.arms)

complexity_While(e) == 1 + analyze_expression(e.cond) + analyze_block(e.body)

complexity_ForLoop(e) == 1 + analyze_expression(e.expr) + analyze_block(e.body)

complexity_Loop_body_only(e) == analyze_block(e.body)

complexity_Loop(e) == 1 + analyze_block(e.body)

complexity_Binary_and_only(e) ==
    (IF e.op = "And" THEN 1 ELSE 0)
        + analyze_expression(e.left) + analyze_expression(e.right)

complexity_Binary(e) ==
    (IF e.op \in {"And", "Or"} THEN 1 ELSE 0)
        + analyze_expression(e.left) + analyze_expression(e.right)

complexity_Exit_value_only(e) == IF e.expr = None THEN 1 ELSE SumExpressions(e.expr)

complexity_Exit(e) == 1 + SumExpressions(e.expr)

analyze_expression(e) ==
    CASE e.kind = "If" -> complexity_If(e)
      [] e.kind = "Match" -> complexity_Match(e)
      [] e.kind = "While" -> complexity_While(e)
      [] e.kind = "ForLoop" -> complexity_ForLoop(e)
      [] e.kind = "Loop" -> complexity_Loop(e)
      [] e.kind = "Binary" -> complexity_Binary(e)
      [] e.kind = "Try" -> 1 + analyze_expression(e.expr)
      [] e.kind \in {"Return", "Break"} -> complexity_Exit(e)
      [] e.kind = "Continue" -> 1
      [] e.kind \in {"Block", "Unsafe", "Async"} -> analyze_block(e.block)
      [] e.kind = "Closure" -> analyze_expression(e.body)
      [] e.kind = "Call" -> analyze_expression(e.func) + SumExpressions(e.args)
      [] e.kind = "MethodCall" ->
            analyze_expression(e.receiver) + SumExpressions(e.args)
      [] e.kind \in {"Array", "Tuple"} -> SumExpressions(e.elems)
      [] e.kind = "Field" -> analyze_expression(e.base)
      [] e.kind = "Index" -> analyze_expression(e.expr) + analyze_expression(e.index)
      [] e.kind = "Assign" -> analyze_expression(e.left) + analyze_expression(e.right)
      [] e.kind \in {"Reference", "Unary", "Cast", "Paren", "Group"} ->
            analyze_expression(e.expr)
      [] e.kind = "Range" -> SumExpressions(e.start) + SumExpressions(e.end)
      [] e.kind = "Struct" -> SumExpressions(e.fields) + SumExpressions(e.rest)
      [] OTHER -> 0

\* ------------------------------------------------------------ nesting depth
RECURSIVE analyze_expression_nesting(_, _)
RECURSIVE analyze_block_nesting(_, _)
RECURSIVE analyze_statement_nesting(_, _)
RECURSIVE MaxExpressions(_, _, _)
RECURSIVE MaxArms_nesting(_, _, _)

\* `for x in xs { max_depth = max_depth.max(analyze_expression_nesting(x, d)) }`
MaxExpressions(xs, d, max_depth) ==
    IF xs = <<>> THEN max_depth
    ELSE MaxExpressions(Tail(xs), d,
                        Max(max_depth, analyze_expression_nesting(Head(xs), d)))

analyze_block_nesting_sum(block, current_depth) ==
    LET RECURSIVE over(_, _)
        over(rest, depth) ==
            IF rest = <<>> THEN depth
            ELSE over(Tail(rest),
                      depth + analyze_statement_nesting(Head(rest), current_depth)
                            - current_depth)
    IN over(block, current_depth)

analyze_block_nesting(block, current_depth) ==
    LET RECURSIVE over(_, _)
        over(rest, max_depth) ==
            IF rest = <<>> THEN max_depth
            ELSE over(Tail(rest),
                      Max(max_depth, analyze_statement_nesting(Head(rest), current_depth)))
    IN over(block, current_depth)

calculate_nesting_depth(f) == analyze_block_nesting(f.block, 0)

analyze_statement_nesting(stmt, current_depth) ==
    CASE stmt.kind = "Expr" -> analyze_expression_nesting(stmt.expr, current_depth)
      [] stmt.kind = "Local" ->
            IF stmt.init # None
            THEN analyze_expression_nesting(stmt.init[1], current_depth)
            ELSE current_depth
      [] stmt.kind = "Item" -> current_depth
      [] stmt.kind = "Macro" -> current_depth

nesting_If(e, current_depth) ==
    LET nested_depth == current_depth + 1
        m1 == Max(nested_depth, analyze_expression_nesting(e.cond, current_depth))
        m2 == Max(m1, analyze_block_nesting(e.then_branch, nested_depth))
    IN IF e.else_branch # None
       THEN Max(m2, analyze_expression_nesting(e.else_branch[1], nested_depth))
       ELSE m2

MaxArms_nesting(arms, nested_depth, max_depth) ==
    IF arms = <<>> THEN max_depth
    ELSE LET arm == Head(arms)
             g == MaxExpressions(arm.guard, nested_depth, max_depth)
         IN MaxArms_nesting(Tail(arms), nested_depth,
                            Max(g, analyze_expression_nesting(arm.body, nested_depth)))

nesting_Match(e, current_depth) ==
    LET nested_depth == current_depth + 1
        m1 == Max(nested_depth, analyze_expression_nesting(e.expr, current_depth))
    IN MaxArms_nesting(e.arms, nested_depth, m1)

nesting_While_same_level(e, current_depth) ==
    Max(current_depth,
        Max(analyze_expression_nesting(e.cond, current_depth),
            analyze_block_nesting(e.body, current_depth)))

nesting_While(e, current_depth) ==
    LET nested_depth == current_depth + 1
        m1 == Max(nested_depth, analyze_expression_nesting(e.cond, current_depth))
    IN Max(m1, analyze_block_nesting(e.body, nested_depth))

nesting_ForLoop(e, current_depth) ==
    LET nested_depth == current_depth + 1
        m1 == Max(nested_depth, analyze_expression_nesting(e.expr, current_depth))
    IN Max(m1, analyze_block_nesting(e.body, nested_depth))

nesting_Loop(e, current_depth) == analyze_block_nesting(e.body, current_depth + 1)

nesting_Block_same_level(e, current_depth) == analyze_block_nesting(e.block, current_depth)

nesting_Block(e, current_depth) == analyze_block_nesting(e.block, current_depth + 1)

nesting_Closure_same_level(e, current_depth) ==
    analyze_expression_nesting(e.body, current_depth)

nesting_Closure(e, current_depth) ==
    analyze_expression_nesting(e.body, current_depth + 1)

nesting_Option(ox, current_depth) ==
    IF ox # None THEN analyze_expression_nesting(ox[1], current_depth)
    ELSE current_depth

analyze_expression_nesting(e, current_depth) ==
    CASE e.kind = "If" -> nesting_If(e, current_depth)
      [] e.kind = "Match" -> nesting_Match(e, current_depth)
      [] e.kind = "While" -> nesting_While(e, current_depth)
      [] e.kind = "ForLoop" -> nesting_ForLoop(e, current_depth)
      [] e.kind = "Loop" -> nesting_Loop(e, current_depth)
      [] e.kind \in {"Block", "Unsafe", "Async"} -> nesting_Block(e, current_depth)
      [] e.kind = "Closure" -> nesting_Closure(e, current_depth)
      [] e.kind = "Binary" ->
            Max(analyze_expression_nesting(e.left, current_depth),
                analyze_expression_nesting(e.right, current_depth))
      [] e.kind = "Try" -> analyze_expression_nesting(e.expr, current_depth)
      [] e.kind \in {"Return", "Break"} -> nesting_Option(e.expr, current_depth)
      [] e.kind = "Call" ->
            MaxExpressions(e.args, current_depth,
                           analyze_expression_nesting(e.func, current_depth))
      [] e.kind = "MethodCall" ->
            MaxExpressions(e.args, current_depth,
                           analyze_expression_nesting(e.receiver, current_depth))
      [] e.kind \in {"Array", "Tuple"} ->
            MaxExpressions(e.elems, current_depth, current_depth)
      [] e.kind = "Field" -> analyze_expression_nesting(e.base, current_depth)
      [] e.kind = "Index" ->
            Max(analyze_expression_nesting(e.expr, current_depth),
                analyze_expression_nesting(e.index, current_depth))
      [] e.kind = "Assign" ->
            Max(analyze_expression_nesting(e.left, current_depth),
                analyze_expression_nesting(e.right, current_depth))
      [] e.kind \in {"Reference", "Unary", "Cast", "Paren", "Group"} ->
            analyze_expression_nesting(e.expr, current_depth)
      [] e.kind = "Range" ->
            MaxExpressions(e.end, current_depth,
                           MaxExpressions(e.start, current_depth, current_depth))
      [] e.kind = "Struct" ->
            MaxExpressions(e.rest, current_depth,
                           MaxExpressions(e.fields, current_depth, current_depth))
      [] OTHER -> current_depth

\* ------------------------------------------------- the tree syn hands over
\* The parser is an external collaborator: the tree it produces is built one
\* construct at a time, bottom-up.  A construct the calculators give a unit
\* or a level of its own costs 1, a construct they only pass through costs 2.
NoResult == [kind |-> "NoResult"]
NoSource == [ok |-> FALSE, items |-> <<>>]
NoSpan == [name |-> "", lines |-> <<>>]

\* the variables of a run of the tool, while no run is going on
NoRun ==
    /\ cli = [directory |-> <<>>, min_lines |-> 0, format |-> "Table"]
    /\ walk = <<>>
    /\ disk = <<>>
    /\ files = [ok |-> TRUE, value |-> <<>>]
    /\ all_results = <<>>
    /\ output = <<>>

func == ItemFn("f", stmts)

SeedStmts ==
    { StmtExpr(Lit), StmtExpr(Continue), StmtExpr(Return(None)),
      StmtExpr(Binary("And", Lit, Lit)), StmtExpr(Binary("Or", Lit, Lit)) }

OpaqueStmts ==
    { StmtExpr(Path), StmtExpr(ExprMacro), StmtExpr(Break(None)),
      StmtLocal(None), StmtMacro, StmtItem(ItemOther) }

DecisionWraps ==
    { "And", "Or", "Try", "Return", "IfCond", "MatchArm", "MatchGuard", "Closure" }

PlainWraps ==
    { "AndRight", "OrRight", "Other", "OtherRight", "Break", "WhileCond", "ForExpr",
      "MatchScrut", "CallFunc", "CallArg", "MethodReceiver", "MethodArg",
      "Array", "Tuple", "Field", "IndexExpr", "IndexIndex", "AssignLeft",
      "AssignRight", "Reference", "Unary", "Cast", "RangeStart", "RangeEnd",
      "StructField", "StructRest", "Paren", "Group", "Await", "Let" }

BodyWraps ==
    { "IfThen", "IfElse", "While", "ForLoop", "Loop", "Block", "Closure", "MatchArm" }

PlainBodyWraps == { "Unsafe", "Async" }

WrapExpr(k, e) ==
    CASE k = "And" -> Binary("And", e, Lit)
      [] k = "Or" -> Binary("Or", e, Lit)
      [] k = "AndRight" -> Binary("And", Lit, e)
      [] k = "OrRight" -> Binary("Or", Lit, e)
      [] k = "Other" -> Binary("Other", e, Lit)
      [] k = "OtherRight" -> Binary("Other", Lit, e)
      [] k = "Try" -> Try(e)
      [] k = "Return" -> Return(Some(e))
      [] k = "Break" -> Break(Some(e))
      [] k = "IfCond" -> If(e, <<>>, None)
      [] k = "WhileCond" -> While(e, <<>>)
      [] k = "ForExpr" -> ForLoop(e, <<>>)
      [] k = "MatchScrut" -> Match(e, <<>>)
      [] k = "MatchArm" -> Match(Lit, <<Arm(None, e)>>)
      [] k = "MatchGuard" -> Match(Lit, <<Arm(Some(e), Lit)>>)
      [] k = "Closure" -> Closure(e)
      [] k = "CallFunc" -> Call(e, <<Lit>>)
      [] k = "CallArg" -> Call(Path, <<Lit, e>>)
      [] k = "MethodReceiver" -> MethodCall(e, <<>>)
      [] k = "MethodArg" -> MethodCall(Path, <<e>>)
      [] k = "Array" -> Array(<<e, Lit>>)
      [] k = "Tuple" -> Tuple(<<Lit, e>>)
      [] k = "Field" -> Field(e)
      [] k = "IndexExpr" -> Index(e, Lit)
      [] k = "IndexIndex" -> Index(Path, e)
      [] k = "AssignLeft" -> Assign(e, Lit)
      [] k = "AssignRight" -> Assign(Path, e)
      [] k = "Reference" -> Reference(e)
      [] k = "Unary" -> Unary(e)
      [] k = "Cast" -> Cast(e)
      [] k = "RangeStart" -> Range(Some(e), None)
      [] k = "RangeEnd" -> Range(Some(Lit), Some(e))
      [] k = "StructField" -> Struct(<<e>>, None)
      [] k = "StructRest" -> Struct(<<Lit>>, Some(e))
      [] k = "Paren" -> Paren(e)
      [] k = "Group" -> Group(e)
      [] k = "Await" -> Await(e)
      [] k = "Let" -> Let(e)

WrapBody(k, b) ==
    CASE k = "IfThen" -> If(Lit, b, None)
      [] k = "IfElse" -> If(Lit, <<>>, Some(Block(b)))
      [] k = "While" -> While(Lit, b)
      [] k = "ForLoop" -> ForLoop(Lit, b)
      [] k = "Loop" -> Loop(b)
      [] k = "Block" -> Block(b)
      [] k = "Unsafe" -> Unsafe(b)
      [] k = "Async" -> Async(b)
      [] k = "Closure" -> Closure(Block(b))
      [] k = "MatchArm" -> Match(Lit, <<Arm(None, Block(b))>>)

HasLastExpr(b) ==
    /\ b # <<>>
    /\ \/ b[Len(b)].kind = "Expr"
       \/ b[Len(b)].kind = "Local" /\ b[Len(b)].init # None

LastExpr(b) ==
    IF b[Len(b)].kind = "Expr" THEN b[Len(b)].expr ELSE b[Len(b)].init[1]

SetLastExpr(b, e) ==
    [b EXCEPT ![Len(b)] = IF @.kind = "Expr" THEN StmtExpr(e) ELSE StmtLocal(Some(e))]

Building(cost) == pc = "build" /\ used + cost <= MaxCost /\ used' = used + cost

Rest == <<pc, complexity, nesting_depth, parsed, function_name, span, result, runVars, stack, visits>>

\* a statement is appended to the block
AddStmt ==
    /\ Building(1)
    /\ \E s \in SeedStmts : stmts' = Append(stmts, s)
    /\ UNCHANGED Rest

AddOpaqueStmt ==
    /\ Building(2)
    /\ \E s \in OpaqueStmts : stmts' = Append(stmts, s)
    /\ UNCHANGED Rest

\* the expression of the last statement becomes an operand of a new expression
WrapDecisionExpr ==
    /\ Building(1)
    /\ HasLastExpr(stmts)
    /\ \E k \in DecisionWraps : stmts' = SetLastExpr(stmts, WrapExpr(k, LastExpr(stmts)))
    /\ UNCHANGED Rest

WrapPlainExpr ==
    /\ Building(2)
    /\ HasLastExpr(stmts)
    /\ \E k \in PlainWraps : stmts' = SetLastExpr(stmts, WrapExpr(k, LastExpr(stmts)))
    /\ UNCHANGED Rest

\* the statements so far become the body of a new construct
WrapStmts ==
    /\ Building(1)
    /\ \E k \in BodyWraps : stmts' = <<StmtExpr(WrapBody(k, stmts))>>
    /\ UNCHANGED Rest

WrapStmtsPlain ==
    /\ Building(2)
    /\ \E k \in PlainBodyWraps : stmts' = <<StmtExpr(WrapBody(k, stmts))>>
    /\ UNCHANGED Rest

\* `if c {} else <if ...>`: an else branch is a block or another `if`
WrapElseIf ==
    /\ Building(1)
    /\ HasLastExpr(stmts)
    /\ LastExpr(stmts).kind = "If"
    /\ stmts' = SetLastExpr(stmts, If(Lit, <<>>, Some(LastExpr(stmts))))
    /\ UNCHANGED Rest

\* the statements so far become the body of a function item nested in the block
WrapFn ==
    /\ Building(1)
    /\ stmts' = <<StmtItem(ItemFn("inner", stmts))>>
    /\ UNCHANGED Rest

\* `e;` becomes `let x = e;`
ToLocal ==
    /\ Building(1)
    /\ stmts # <<>>
    /\ stmts[Len(stmts)].kind = "Expr"
    /\ stmts' = [stmts EXCEPT ![Len(stmts)] = StmtLocal(Some(@.expr))]
    /\ UNCHANGED Rest

\* one more arm on the match that is the last statement
AddArm ==
    /\ Building(1)
    /\ HasLastExpr(stmts)
    /\ LastExpr(stmts).kind = "Match"
    /\ Len(LastExpr(stmts).arms) < MaxArms
    /\ \E g \in {None, Some(Lit)} :
          stmts' = SetLastExpr(stmts,
                      [LastExpr(stmts) EXCEPT !.arms = Append(@, Arm(g, Lit))])
    /\ UNCHANGED Rest

\* both calculators run on the function
Analyze ==
    /\ pc = "build"
    /\ pc' = "done"
    /\ complexity' = calculate_cyclomatic_complexity(func)
    /\ nesting_depth' = calculate_nesting_depth(func)
    /\ UNCHANGED <<stmts, used, parsed, function_name, span, result, runVars, stack, visits>>

Init ==
    /\ stmts = <<>>
    /\ used = 0
    /\ pc = "build"
    /\ complexity = 0
    /\ nesting_depth = 0
    /\ parsed = NoSource
    /\ function_name = ""
    /\ span = NoSpan
    /\ result = NoResult
    /\ NoRun
    /\ stack = <<>>
    /\ visits = <<>>

Next ==
    \/ AddStmt
    \/ AddOpaqueStmt
    \/ WrapDecisionExpr
    \/ WrapPlainExpr
    \/ WrapStmts
    \/ WrapStmtsPlain
    \/ WrapElseIf
    \/ WrapFn
    \/ ToLocal
    \/ AddArm
    \/ Analyze

Spec == Init /\ [][Next]_vars

\* ------------------------------- specification: a chain of nested constructs
MaxChain == 6

\* a control construct around the statements so far: they become its body
\* (for a match, the body of its one arm, in braces or as the bare expression)
WrapChain ==
    /\ pc = "build"
    /\ used < MaxChain
    /\ used' = used + 1
    /\ \E k \in { "IfThen", "While", "ForLoop", "Loop", "MatchArm", "MatchArmExpr" } :
          stmts' = << StmtExpr(
                        IF k # "MatchArmExpr" THEN WrapBody(k, stmts)
                        ELSE WrapExpr("MatchArm", IF stmts = <<>> THEN Lit ELSE stmts[1].expr)) >>
    /\ UNCHANGED Rest

NextChain ==
    \/ WrapChain
    \/ Analyze

SpecChain == Init /\ [][NextChain]_vars

\* ------------------------------------------------- lookup by name in a source
\* syn::parse_file is external: a source text is modelled by what parsing it
\* gives, an error or the items of the file in order.
RECURSIVE FirstFn(_, _)
FirstFn(items, name) ==
    IF items = <<>> THEN None
    ELSE IF Head(items).kind = "Fn" THEN Some(Head(items))
    ELSE FirstFn(Tail(items), name)

\* `for item in parsed.items { if let Item::Fn(func) = item { if name matches { return ..` 
RECURSIVE FirstFnNamed(_, _)
FirstFnNamed(items, name) ==
    IF items = <<>> THEN None
    ELSE IF Head(items).kind = "Fn" /\ Head(items).name = name THEN Some(Head(items))
    ELSE FirstFnNamed(Tail(items), name)

calculate_cyclomatic_complexity_from_source(source, name) ==
    IF source.ok /\ FirstFnNamed(source.items, name) # None
    THEN calculate_cyclomatic_complexity(FirstFnNamed(source.items, name)[1])
    ELSE 1

calculate_nesting_depth_from_source(source, name) ==
    IF source.ok /\ FirstFnNamed(source.items, name) # None
    THEN calculate_nesting_depth(FirstFnNamed(source.items, name)[1])
    ELSE 0

\* ------------------------------------------------------------ line counting
\* A line is a sequence of characters.
IsWhitespace(c) == c \in {" ", "\t"}

RECURSIVE trim_start(_)
trim_start(line) ==
    IF line # <<>> /\ IsWhitespace(Head(line)) THEN trim_start(Tail(line)) ELSE line

RECURSIVE trim_end(_)
trim_end(line) ==
    IF line # <<>> /\ IsWhitespace(line[Len(line)])
    THEN trim_end(SubSeq(line, 1, Len(line) - 1))
    ELSE line

trim_no_start(line) == trim_end(line)

trim(line) == trim_end(trim_start(line))

starts_with(line, prefix) ==
    Len(line) >= Len(prefix) /\ SubSeq(line, 1, Len(prefix)) = prefix

\* one pass of the loop body: counts is <<code, comment, empty>>
count_line_comment_also_code(counts, line) ==
    LET trimmed == trim(line)
        isComment == starts_with(trimmed, <<"/", "/">>) \/ starts_with(trimmed, <<"/", "*">>)
    IN IF trimmed = <<>> THEN [counts EXCEPT ![3] = @ + 1]
       ELSE [counts EXCEPT ![1] = @ + 1, ![2] = @ + (IF isComment THEN 1 ELSE 0)]

count_line(counts, line) ==
    LET trimmed == trim(line)
    IN IF trimmed = <<>> THEN [counts EXCEPT ![3] = @ + 1]
       ELSE IF starts_with(trimmed, <<"/", "/">>) \/ starts_with(trimmed, <<"/", "*">>)
            THEN [counts EXCEPT ![2] = @ + 1]
       ELSE [counts EXCEPT ![1] = @ + 1]

RECURSIVE count_lines_from(_, _)
count_lines_from(lines, counts) ==
    IF lines = <<>> THEN counts
    ELSE count_lines_from(Tail(lines), count_line(counts, Head(lines)))

\* (total, code, comment, empty)
count_function_lines(f) ==
    LET counts == count_lines_from(f.lines, <<0, 0, 0>>)
    IN <<Len(f.lines), counts[1], counts[2], counts[3]>>

analyze_function_complete(f, source) ==
    LET counts == count_function_lines(f)
    IN [ name |-> f.name,
         total |-> counts[1],
         code |-> counts[2],
         comment |-> counts[3],
         empty |-> counts[4],
         cyclomatic_complexity |-> calculate_cyclomatic_complexity_from_source(source, f.name),
         nesting_depth |-> calculate_nesting_depth_from_source(source, f.name) ]

\* --------------------------------------------- specification: lookup by name
SeqsUpTo(S, n) == UNION { [1..k -> S] : k \in 0..n }

SampleBlocks ==
    { <<>>,
      <<StmtExpr(If(Lit, <<StmtExpr(Loop(<<>>))>>, None))>>,
      <<StmtItem(ItemFn("inner", <<StmtExpr(Continue)>>))>> }

SourceItems == { ItemOther } \cup { ItemFn(n, b) : n \in {"f", "g"}, b \in SampleBlocks }

ParsedSources ==
    { NoSource } \cup { [ok |-> TRUE, items |-> is] : is \in SeqsUpTo(SourceItems, MaxItems) }

InitSource ==
    /\ parsed \in ParsedSources
    /\ function_name \in {"f", "g", "inner", "nonexistent"}
    /\ pc = "source"
    /\ stmts = <<>>
    /\ used = 0
    /\ complexity = 0
    /\ nesting_depth = 0
    /\ span = NoSpan
    /\ result = NoResult
    /\ NoRun
    /\ stack = <<>>
    /\ visits = <<>>

CalculateComplexityFromSource ==
    /\ pc = "source"
    /\ pc' = "complexity"
    /\ complexity' = calculate_cyclomatic_complexity_from_source(parsed, function_name)
    /\ UNCHANGED <<stmts, used, nesting_depth, parsed, function_name, span, result, runVars, stack, visits>>

CalculateNestingFromSource ==
    /\ pc = "complexity"
    /\ pc' = "looked_up"
    /\ nesting_depth' = calculate_nesting_depth_from_source(parsed, function_name)
    /\ UNCHANGED <<stmts, used, complexity, parsed, function_name, span, result, runVars, stack, visits>>

NextSource ==
    \/ CalculateComplexityFromSource
    \/ CalculateNestingFromSource

SpecSource == InitSource /\ [][NextSource]_vars

\* ---------------------------------------- specification: one function span
SampleLines ==
    { <<>>,
      <<" ", " ">>,
      <<"\t", "\t">>,
      <<"/", "/", " ", "c">>,
      <<" ", " ", "/", "/", "c">>,
      <<"\t", "/", "*", "c", "*", "/">>,
      <<"/", "*">>,
      <<"c", ";", " ", "/", "/", "c">>,
      <<" ", "c", "*", "/">>,
      <<"/">>,
      <<"f", "n", " ", "f", "{">>,
      <<"}", " ">> }

InitLines ==
    /\ span \in [name : {"f", "nonexistent"}, lines : SeqsUpTo(SampleLines, MaxLines)]
    /\ parsed \in { NoSource, [ok |-> TRUE, items |-> <<ItemFn("f", <<StmtExpr(Loop(<<>>))>>)>>] }
    /\ pc = "span"
    /\ function_name = ""
    /\ stmts = <<>>
    /\ used = 0
    /\ complexity = 0
    /\ nesting_depth = 0
    /\ result = NoResult
    /\ NoRun
    /\ stack = <<>>
    /\ visits = <<>>

\* count_function_lines called on its own
CountFunctionLines ==
    /\ pc = "span"
    /\ pc' = "counted"
    /\ result' = [kind |-> "Counts", counts |-> count_function_lines(span)]
    /\ UNCHANGED <<stmts, used, complexity, nesting_depth, parsed, function_name, span, runVars, stack, visits>>

AnalyzeFunctionComplete ==
    /\ pc = "span"
    /\ pc' = "analyzed"
    /\ result' = analyze_function_complete(span, parsed)
    /\ UNCHANGED <<stmts, used, complexity, nesting_depth, parsed, function_name, span, runVars, stack, visits>>

NextLines ==
    \/ CountFunctionLines
    \/ AnalyzeFunctionComplete

SpecLines == InitLines /\ [][NextLines]_vars

\* --------------------------------------- specification: the traversals, call by call
\* The recursion of a calculator, one call at a time: `stack` holds the calls
\* still to be made, each with the place `at` of its argument in the tree.
MaxWalkStmts == 2

Pending_always_deeper(fn, arg, f, i, deeper) ==
    [fn |-> fn, arg |-> arg, at |-> <<[f |-> f, i |-> i]>>, deeper |-> TRUE]

Pending(fn, arg, f, i, deeper) ==
    [fn |-> fn, arg |-> arg, at |-> <<[f |-> f, i |-> i]>>, deeper |-> deeper]

Each_one_deeper(xs, f, deeper) == [i \in DOMAIN xs |-> Pending("expression", xs[i], f, i, TRUE)]

Each(xs, f, deeper) == [i \in DOMAIN xs |-> Pending("expression", xs[i], f, i, deeper)]

\* the recursive calls of the arm of `match expr` that handles e; `deeper`
\* marks the calls the nesting calculator makes with nested_depth
operands(e) ==
    CASE e.kind = "If" ->
            << Pending("expression", e.cond, "cond", 0, FALSE),
               Pending("block", e.then_branch, "then_branch", 0, TRUE) >>
                \o Each(e.else_branch, "else_branch", TRUE)
      [] e.kind = "Match" ->
            << Pending("expression", e.expr, "expr", 0, FALSE) >>
                \o [i \in DOMAIN e.arms |-> Pending("arm", e.arms[i], "arms", i, TRUE)]
      [] e.kind = "While" ->
            << Pending("expression", e.cond, "cond", 0, FALSE),
               Pending("block", e.body, "body", 0, TRUE) >>
      [] e.kind = "ForLoop" ->
            << Pending("expression", e.expr, "expr", 0, FALSE),
               Pending("block", e.body, "body", 0, TRUE) >>
      [] e.kind = "Loop" -> << Pending("block", e.body, "body", 0, TRUE) >>
      [] e.kind \in {"Block", "Unsafe", "Async"} ->
            << Pending("block", e.block, "block", 0, TRUE) >>
      [] e.kind = "Closure" -> << Pending("expression", e.body, "body", 0, TRUE) >>
      [] e.kind \in {"Binary", "Assign"} ->
            << Pending("expression", e.left, "left", 0, FALSE),
               Pending("expression", e.right, "right", 0, FALSE) >>
      [] e.kind \in {"Try", "Reference", "Unary", "Cast", "Paren", "Group"} ->
            << Pending("expression", e.expr, "expr", 0, FALSE) >>
      [] e.kind \in {"Return", "Break"} -> Each(e.expr, "expr", FALSE)
      [] e.kind = "Call" ->
            << Pending("expression", e.func, "func", 0, FALSE) >> \o Each(e.args, "args", FALSE)
      [] e.kind = "MethodCall" ->
            << Pending("expression", e.receiver, "receiver", 0, FALSE) >>
                \o Each(e.args, "args", FALSE)
      [] e.kind \in {"Array", "Tuple"} -> Each(e.elems, "elems", FALSE)
      [] e.kind = "Field" -> << Pending("expression", e.base, "base", 0, FALSE) >>
      [] e.kind = "Index" ->
            << Pending("expression", e.expr, "expr", 0, FALSE),
               Pending("expression", e.index, "index", 0, FALSE) >>
      [] e.kind = "Range" -> Each(e.start, "start", FALSE) \o Each(e.end, "end", FALSE)
      [] e.kind = "Struct" -> Each(e.fields, "fields", FALSE) \o Each(e.rest, "rest", FALSE)
      [] OTHER -> <<>>

arm_calls_body_twice(arm) ==
    Each(arm.guard, "guard", FALSE)
        \o << Pending("expression", arm.body, "body", 0, FALSE),
              Pending("expression", arm.body, "body", 0, FALSE) >>

\* the guard, when there is one, then the body
arm_calls(arm) ==
    Each(arm.guard, "guard", FALSE) \o << Pending("expression", arm.body, "body", 0, FALSE) >>

\* the calls a call makes; only the complexity calculator enters items
callees(call) ==
    CASE call.fn = "function" -> << Pending("block", call.arg.block, "block", 0, FALSE) >>
      [] call.fn = "block" ->
            [i \in DOMAIN call.arg |-> Pending("statement", call.arg[i], "stmts", i, FALSE)]
      [] call.fn = "statement" ->
            (CASE call.arg.kind = "Expr" ->
                    << Pending("expression", call.arg.expr, "expr", 0, FALSE) >>
               [] call.arg.kind = "Local" -> Each(call.arg.init, "init", FALSE)
               [] call.arg.kind = "Item" ->
                    IF call.calc = "complexity"
                    THEN << Pending("item", call.arg.item, "item", 0, FALSE) >>
                    ELSE <<>>
               [] call.arg.kind = "Macro" -> <<>>)
      [] call.fn = "item" ->
            IF call.arg.kind = "Fn"
            THEN << Pending("function", call.arg, "fn", 0, FALSE) >>
            ELSE <<>>
      [] call.fn = "arm" -> arm_calls(call.arg)
      [] call.fn = "expression" -> operands(call.arg)

unit_of_every_expression(call) ==
    IF call.fn \in {"function", "arm", "expression"} THEN 1 ELSE 0

\* what the call itself adds to the complexity
unit(call) ==
    CASE call.fn \in {"function", "arm"} -> 1
      [] call.fn = "expression" ->
            IF \/ call.arg.kind \in {"If", "Match", "While", "ForLoop", "Loop", "Try",
                                     "Return", "Break", "Continue"}
               \/ call.arg.kind = "Binary" /\ call.arg.op \in {"And", "Or"}
            THEN 1 ELSE 0
      [] OTHER -> 0

\* the depth the call itself reports: `let mut max_depth = nested_depth` in
\* if, match, while and for, the current depth everywhere else
level(call) ==
    IF call.fn = "expression" /\ call.arg.kind \in {"If", "Match", "While", "ForLoop"}
    THEN call.depth + 1
    ELSE call.depth

\* one statement for every case of the two calculators, and one with a
\* nesting construct in every kind of header
WalkStmts ==
    { StmtExpr(If(Binary("And", Lit, Path), <<StmtExpr(Continue)>>,
                  Some(Block(<<StmtExpr(Return(None))>>)))),
      StmtExpr(Match(Path, <<Arm(Some(Lit), Try(Lit)), Arm(None, Block(<<>>))>>)),
      StmtExpr(While(Lit, <<StmtExpr(ForLoop(Range(Some(Lit), Some(Lit)),
                                             <<StmtExpr(Loop(<<StmtExpr(Break(Some(Lit)))>>))>>))>>)),
      StmtLocal(Some(Closure(Block(<<StmtExpr(If(Lit, <<>>, None))>>)))),
      StmtExpr(Call(Path, <<MethodCall(Field(Path), <<Lit>>), Array(<<Lit, Lit>>)>>)),
      StmtExpr(Assign(Index(Path, Lit), Cast(Unary(Reference(Paren(Group(Lit))))))),
      StmtExpr(Struct(<<Lit>>, Some(Tuple(<<Binary("Or", Lit, Binary("Other", Lit, Lit))>>)))),
      StmtExpr(Unsafe(<<StmtExpr(Async(<<StmtExpr(Await(Loop(<<>>)))>>))>>)),
      StmtItem(ItemFn("inner", <<StmtExpr(Loop(<<>>))>>)),
      StmtItem(ItemOther),
      StmtMacro,
      StmtLocal(None),
      StmtExpr(Let(Lit)),
      StmtExpr(ExprMacro),
      StmtExpr(If(Match(While(ForLoop(Closure(Lit), <<>>), <<>>), <<>>), <<>>, None)) }

\* calculate_cyclomatic_complexity(func) or calculate_nesting_depth(func) is called
InitWalk ==
    /\ stmts \in SeqsUpTo(WalkStmts, MaxWalkStmts)
    /\ \E calc \in {"complexity", "nesting"} :
          stack = << [fn |-> "function", arg |-> func, at |-> <<>>, deeper |-> FALSE,
                      calc |-> calc, depth |-> 0] >>
    /\ visits = <<>>
    /\ pc = "walking"
    /\ used = 0
    /\ complexity = 0
    /\ nesting_depth = 0
    /\ parsed = NoSource
    /\ function_name = ""
    /\ span = NoSpan
    /\ result = NoResult
    /\ NoRun

\* the next pending call is made: it adds its own share and leaves its own
\* calls to be made before the rest
Enter ==
    /\ pc = "walking"
    /\ stack # <<>>
    /\ LET call == Head(stack)
           calc == call.calc
           made == callees(call)
           calls == [i \in DOMAIN made |->
                       [fn |-> made[i].fn, arg |-> made[i].arg, at |-> call.at \o made[i].at,
                        deeper |-> made[i].deeper, calc |-> calc,
                        depth |-> IF calc = "nesting" /\ made[i].deeper
                                  THEN call.depth + 1 ELSE call.depth]]
       IN /\ stack' = calls \o Tail(stack)
          /\ visits' = Append(visits, call.at)
          /\ complexity' = IF calc = "complexity" THEN complexity + unit(call) ELSE complexity
          /\ nesting_depth' = IF calc = "nesting" THEN Max(nesting_depth, level(call))
                              ELSE nesting_depth
    /\ pc' = IF stack' = <<>> THEN "walked" ELSE "walking"
    /\ UNCHANGED <<stmts, used, parsed, function_name, span, result, runVars>>

NextWalk == Enter

\* a running calculator keeps running
SpecWalk == InitWalk /\ [][NextWalk]_vars /\ WF_vars(NextWalk)

\* ------------------------------------------------------------- file paths
\* A path is a sequence of characters.
MaxOf(S) == CHOOSE x \in S : \A y \in S : y <= x

\* the text after the last separator
file_name(path) ==
    LET seps == { i \in DOMAIN path : path[i] = "/" }
    IN IF seps = {} THEN path ELSE SubSeq(path, MaxOf(seps) + 1, Len(path))

extension_any_dot(path) ==
    LET name == file_name(path)
        dots == { i \in DOMAIN name : name[i] = "." }
    IN IF dots = {} THEN None ELSE Some(SubSeq(name, MaxOf(dots) + 1, Len(name)))

\* Path::extension: the text after the last dot of the file name; none when
\* the name has no dot, is `..`, or has its only dot in front
extension(path) ==
    LET name == file_name(path)
        dots == { i \in DOMAIN name : name[i] = "." }
    IN IF dots = {} \/ name = <<".", ".">> \/ MaxOf(dots) = 1 THEN None
       ELSE Some(SubSeq(name, MaxOf(dots) + 1, Len(name)))

\* the pieces of a path between separators, empty pieces included
RECURSIVE split(_, _)
split(path, piece) ==
    IF path = <<>> THEN <<piece>>
    ELSE IF Head(path) = "/" THEN <<piece>> \o split(Tail(path), <<>>)
    ELSE split(Tail(path), Append(piece, Head(path)))

\* Path::components: the root, then the pieces that are neither empty nor
\* `.` (a leading `.` of a relative path is kept)
components(path) ==
    LET pieces == split(path, <<>>)
        has_root == path # <<>> /\ Head(path) = "/"
        kept == { i \in DOMAIN pieces :
                    /\ pieces[i] # <<>>
                    /\ pieces[i] = <<".">> => (i = 1 /\ ~has_root) }
        RECURSIVE pick(_)
        pick(i) ==
            IF i > Len(pieces) THEN <<>>
            ELSE (IF i \in kept THEN <<pieces[i]>> ELSE <<>>) \o pick(i + 1)
    IN (IF has_root THEN << <<"/">> >> ELSE <<>>) \o pick(1)

\* the components, joined with "/"
normalize_path(path) ==
    LET RECURSIVE join(_)
        join(pieces) ==
            IF pieces = <<>> THEN <<>>
            ELSE IF Len(pieces) = 1 THEN pieces[1]
            ELSE pieces[1] \o <<"/">> \o join(Tail(pieces))
    IN join(components(path))

\* ------------------------------------------------------------ file scanner
Ok(v) == [ok |-> TRUE, value |-> v]
Err(e) == [ok |-> FALSE, error |-> e]

NoRustFiles(dir) == [kind |-> "NoRustFiles", directory |-> dir]

\* an entry of the walk: a path (with to_str() succeeding or not), or an error
Entry(path, utf8) == [ok |-> TRUE, path |-> path, utf8 |-> utf8]
EntryError(has_path) == [ok |-> FALSE, has_path |-> has_path]

\* entries is what WalkDir::new(dir) yields
find_rust_files(dir, entries) ==
    LET RECURSIVE collect(_, _)
        collect(rest, rust_files) ==
            IF rest = <<>>
            THEN IF rust_files = <<>> THEN Err(NoRustFiles(dir)) ELSE Ok(rust_files)
            ELSE IF ~Head(rest).ok
            THEN Err(IF Head(rest).has_path
                     THEN [kind |-> "DirectoryNotAccessible", directory |-> dir]
                     ELSE [kind |-> "Io"])
            ELSE collect(Tail(rest),
                    IF extension(Head(rest).path) = Some(<<"r", "s">>) /\ Head(rest).utf8
                    THEN Append(rust_files, Head(rest).path)
                    ELSE rust_files)
    IN collect(entries, <<>>)

\* ------------------------------------------------------ function extractor
\* the characters of an identifier
NameChars(name) ==
    CASE name = "f" -> <<"f">>
      [] name = "g" -> <<"g">>
      [] name = "fg" -> <<"f", "g">>
      [] name = "inner" -> <<"i", "n", "n", "e", "r">>
      [] OTHER -> <<"n", "o", "n", "e", "x", "i", "s", "t", "e", "n", "t">>

contains(line, pattern) ==
    \E i \in 1..(Len(line) - Len(pattern) + 1) :
        SubSeq(line, i, i + Len(pattern) - 1) = pattern

\* `for ch in line.chars()`: the brace count after the line, or `closed` as
\* soon as a closing brace brings it to zero
RECURSIVE count_braces_any_close(_, _)
count_braces_any_close(line, brace_count) ==
    IF line = <<>> THEN [closed |-> FALSE, brace_count |-> brace_count]
    ELSE IF Head(line) = "{" THEN count_braces_any_close(Tail(line), brace_count + 1)
    ELSE IF Head(line) = "}" THEN [closed |-> TRUE, brace_count |-> 0]
    ELSE count_braces_any_close(Tail(line), brace_count)

RECURSIVE count_braces(_, _)
count_braces(line, brace_count) ==
    IF line = <<>> THEN [closed |-> FALSE, brace_count |-> brace_count]
    ELSE IF Head(line) = "{" THEN count_braces(Tail(line), brace_count + 1)
    ELSE IF Head(line) = "}"
         THEN IF brace_count - 1 = 0
              THEN [closed |-> TRUE, brace_count |-> 0]
              ELSE count_braces(Tail(line), brace_count - 1)
    ELSE count_braces(Tail(line), brace_count)

\* indices are those of the code: the first line is line 0
find_function_bounds(lines, fn_name) ==
    LET fn_pattern == <<"f", "n", " ">> \o NameChars(fn_name)
        RECURSIVE from(_, _, _)
        from(i, start, brace_count) ==
            IF i >= Len(lines) THEN None
            ELSE LET line == lines[i + 1]
                     started == IF start = None /\ contains(line, fn_pattern)
                                THEN Some(i) ELSE start
                     counted == count_braces(line, brace_count)
                 IN IF started = None THEN from(i + 1, started, brace_count)
                    ELSE IF counted.closed THEN Some(<<started[1], i>>)
                    ELSE from(i + 1, started, counted.brace_count)
    IN from(0, None, 0)

\* a source text is its lines and what syn::parse_file makes of it; a span
\* is a FunctionSpan, [name, lines]
extract_function_spans(source) ==
    LET RECURSIVE spans(_)
        spans(items) ==
            IF items = <<>> THEN <<>>
            ELSE LET item == Head(items)
                     bounds == find_function_bounds(source.lines, item.name)
                 IN (IF item.kind = "Fn" /\ bounds # None
                     THEN << [name |-> item.name,
                              lines |-> SubSeq(source.lines, bounds[1][1] + 1,
                                               bounds[1][2] + 1)] >>
                     ELSE <<>>)
                    \o spans(Tail(items))
    IN IF ~source.ok THEN Err([kind |-> "Io"]) ELSE Ok(spans(source.items))

\* ------------------------------------------------------------- aggregation
Source(lines, ok, items) == [lines |-> lines, ok |-> ok, items |-> items]

File(readable, source) == [readable |-> readable, source |-> source]

\* fs::read_to_string: the file behind a path, whatever directory prefix
\* the path is written with; a path with no file behind it cannot be read
read_to_string(path) ==
    IF file_name(path) \in DOMAIN disk THEN disk[file_name(path)]
    ELSE File(FALSE, Source(<<>>, FALSE, <<>>))

Panic(message) == [panic |-> TRUE, message |-> message, value |-> <<>>]
Returned(v) == [panic |-> FALSE, message |-> "", value |-> v]

\* read_rust_file unwraps the read with expect(); the extractor's value is
\* used as the list of spans, so a failed parse ends the same way
analyze_file_functions(path) ==
    LET file == read_to_string(path)
        function_spans == extract_function_spans(file.source)
    IN IF ~file.readable THEN Panic("Failed to read file")
       ELSE IF ~function_spans.ok THEN Panic("parse failed")
       ELSE Returned([i \in DOMAIN function_spans.value |->
                        analyze_function_complete(function_spans.value[i], file.source)])

\* format!("{}::{}", normalized_path, result.name)
qualified_name(path, name) == normalize_path(path) \o <<":", ":">> \o NameChars(name)

analyze_all_files(file_paths) ==
    LET RECURSIVE over(_, _)
        over(paths, all_results_so_far) ==
            IF paths = <<>> THEN Returned(all_results_so_far)
            ELSE LET file_results == analyze_file_functions(Head(paths))
                     named == [i \in DOMAIN file_results.value |->
                                 [file_results.value[i] EXCEPT
                                    !.name = qualified_name(Head(paths), @)]]
                 IN IF file_results.panic THEN file_results
                    ELSE over(Tail(paths), all_results_so_far \o named)
    IN over(file_paths, <<>>)

\* -------------------------------------------------------- output formatter
\* a printed line is kept as the call that printed it
display_analysis_header(format, file_count) ==
    CASE format = "Table" -> << [line |-> "Analyzing", file_count |-> file_count] >>
      [] format = "Json" -> <<>>
      [] format = "Csv" -> << [line |-> "CsvHeader"] >>

RECURSIVE insert_by_code_ascending(_, _)
insert_by_code_ascending(sorted, r) ==
    IF sorted = <<>> THEN <<r>>
    ELSE IF Head(sorted).code > r.code THEN <<r>> \o sorted
    ELSE <<Head(sorted)>> \o insert_by_code_ascending(Tail(sorted), r)

\* the place of r in a list sorted by sort_by(|a, b| b.code.cmp(&a.code)):
\* behind every record that does not come after it (the sort is stable)
RECURSIVE insert_by_code(_, _)
insert_by_code(sorted, r) ==
    IF sorted = <<>> THEN <<r>>
    ELSE IF Head(sorted).code < r.code THEN <<r>> \o sorted
    ELSE <<Head(sorted)>> \o insert_by_code(Tail(sorted), r)

RECURSIVE sort_by_code(_, _)
sort_by_code(results, sorted) ==
    IF results = <<>> THEN sorted
    ELSE sort_by_code(Tail(results), insert_by_code(sorted, Head(results)))

display_results_sorted_by_code(format, results) ==
    LET sorted_results == sort_by_code(results, <<>>)
        rows == [i \in DOMAIN sorted_results |->
                   CASE format = "Table" -> [line |-> "TableRow", result |-> sorted_results[i]]
                     [] format = "Csv" -> [line |-> "CsvRow", result |-> sorted_results[i]]
                     [] format = "Json" ->
                           [line |-> "JsonRow", result |-> sorted_results[i],
                            comma |-> i < Len(sorted_results)]]
    IN IF format = "Json"
       THEN << [line |-> "JsonOpen"] >> \o rows \o << [line |-> "JsonClose"] >>
       ELSE rows

\* ------------------------------------------ specification: a run of the tool
MaxEntries == 2
MaxPaths == 2

Directories == { <<"d">>, <<"/", "d">> }

FileNames == { <<"a", ".", "r", "s">>, <<"b", ".", "r", "s">> }

\* an unreadable file, a file that does not parse, `fn f(){}`, and
\* `fn g(){ //c loop{} }` over four lines followed by `fn f(){}`
SampleFiles ==
    { File(FALSE, Source(<<>>, FALSE, <<>>)),
      File(TRUE, Source(<< <<"f", "n", " ", "f", "(", "{">> >>, FALSE, <<>>)),
      File(TRUE, Source(<< <<"f", "n", " ", "f", "(", ")", "{", "}">> >>, TRUE, <<ItemFn("f", <<>>)>>)),
      File(TRUE, Source(<< <<"f", "n", " ", "g", "(", ")", "{">>, <<"/", "/", "c">>, <<"l", "o", "o", "p", "{", "}">>, <<"}">>, <<"f", "n", " ", "f", "(", ")", "{", "}">> >>, TRUE,
                        <<ItemFn("g", <<StmtExpr(Loop(<<>>))>>), ItemFn("f", <<>>)>>)) }

under(dir, name) == dir \o <<"/">> \o name

\* what a directory can hold: Rust files, other files, a hidden `.rs`, a
\* Rust file whose name is not UTF-8, entries that cannot be read
ChildEntries(dir) ==
    { Entry(under(dir, n), TRUE) : n \in FileNames \cup { <<"c", ".", "m", "d">>, <<".", "r", "s">> } }
        \cup { Entry(under(dir, <<"x", ".", "r", "s">>), FALSE), EntryError(TRUE), EntryError(FALSE) }

\* the walk starts with the directory itself; a missing directory is an
\* error; no path comes twice
Walks(dir) ==
    { <<EntryError(TRUE)>> }
        \cup { <<Entry(dir, TRUE)>> \o children :
                 children \in
                    { c \in SeqsUpTo(ChildEntries(dir), MaxEntries) :
                        \A i, j \in DOMAIN c :
                            (i # j /\ c[i].ok /\ c[j].ok) => c[i].path # c[j].path } }

\* the tool is started on a directory, or analyze_all_files is called with a
\* list of paths
InitRun ==
    /\ \/ /\ cli \in [directory : Directories, min_lines : {0, 2},
                      format : {"Table", "Json", "Csv"}]
          /\ walk \in Walks(cli.directory)
          /\ files = Ok(<<>>)
          /\ pc = "start"
       \/ /\ cli = [directory |-> <<>>, min_lines |-> 0, format |-> "Table"]
          /\ walk = <<>>
          /\ files \in { Ok(ps) :
                ps \in SeqsUpTo({ under(d, n) : d \in Directories,
                                                n \in FileNames \cup { <<"c", ".", "m", "d">> } },
                                MaxPaths) }
          /\ pc = "call"
    /\ disk \in [FileNames -> SampleFiles]
    /\ all_results = <<>>
    /\ output = <<>>
    /\ stmts = <<>>
    /\ used = 0
    /\ complexity = 0
    /\ nesting_depth = 0
    /\ parsed = NoSource
    /\ function_name = ""
    /\ span = NoSpan
    /\ result = NoResult
    /\ stack = <<>>
    /\ visits = <<>>

\* run_analysis, up to the header: an error of the scan is printed and the
\* process exits with status 1
FindRustFiles ==
    /\ pc = "start"
    /\ files' = find_rust_files(cli.directory, walk)
    /\ IF files'.ok
       THEN /\ pc' = "found"
            /\ output' = output \o display_analysis_header(cli.format, Len(files'.value))
       ELSE /\ pc' = "exit"
            /\ output' = Append(output, [line |-> "Error", error |-> files'.error])
    /\ UNCHANGED <<cli, walk, disk, all_results, stack, visits, stmts, used, complexity,
                   nesting_depth, parsed, function_name, span, result>>

\* analyze_all_files; a panic inside it ends the process
AnalyzeAllFiles ==
    /\ pc \in {"found", "call"}
    /\ LET returned == analyze_all_files(files.value)
       IN /\ all_results' = returned.value
          /\ pc' = IF returned.panic THEN "panicked"
                   ELSE IF pc = "found" THEN "analyzed" ELSE "returned"
          /\ output' = IF returned.panic
                       THEN Append(output, [line |-> "Panic", message |-> returned.message])
                       ELSE output
    /\ UNCHANGED <<cli, walk, disk, files, stack, visits, stmts, used, complexity,
                   nesting_depth, parsed, function_name, span, result>>

\* run_analysis, last step
DisplayResultsSortedByCode ==
    /\ pc = "analyzed"
    /\ pc' = "displayed"
    /\ output' = output \o display_results_sorted_by_code(cli.format, all_results)
    /\ UNCHANGED <<cli, walk, disk, files, all_results, stack, visits, stmts, used,
                   complexity, nesting_depth, parsed, function_name, span, result>>

NextRun ==
    \/ FindRustFiles
    \/ AnalyzeAllFiles
    \/ DisplayResultsSortedByCode

SpecRun == InitRun /\ [][NextRun]_vars

\* ----------------------------------- specification: where a function lies
MaxBoundsLines == 3

\* lines a source may be made of
BoundsLines ==
    { <<"f", "n", " ", "f", "(", ")", "{", "}">>,
      <<"f", "n", " ", "g", "(", ")", "{">>,
      <<"i", "f", " ", "x", " ", "{">>,
      <<"}">>,
      <<"}", "}">>,
      <<"}", " ", "f", "n", " ", "f", "(", ")", "{">>,
      <<"/", "/", "f", "n", " ", "f">>,
      <<"x">> }

\* sources that parse, each with the functions it declares and the lines
\* (counted from 0) each of them really covers
BoundsSamples ==
    { [lines |-> << <<"f", "n", " ", "g", "(", ")", "{">>, <<"}">>, <<"f", "n", " ", "f", "(", ")", "{", "}">> >>,
        fns |-> << [name |-> "g", first |-> 0, last |-> 1], [name |-> "f", first |-> 2, last |-> 2] >>],
      [lines |-> << <<"f", "n", " ", "f", "g", "(", ")", "{", "}">>, <<"f", "n", " ", "f", "(", ")", "{", "}">> >>,
        fns |-> << [name |-> "fg", first |-> 0, last |-> 0], [name |-> "f", first |-> 1, last |-> 1] >>],
      [lines |-> << <<"/", "/", "f", "n", " ", "f">>, <<"f", "n", " ", "f", "(", ")", "{", "}">> >>,
        fns |-> << [name |-> "f", first |-> 1, last |-> 1] >>],
      [lines |-> << <<"f", "n", " ", "f", "(", ")", "{">>, <<"s", "=", "\"", "}", "\"", ";">>, <<"}">> >>,
        fns |-> << [name |-> "f", first |-> 0, last |-> 2] >>],
      [lines |-> << <<"f", "n", " ", "f", "(", ")", "{">>, <<"/", "/", "{">>, <<"}">>, <<"f", "n", " ", "g", "(", ")", "{", "}">> >>,
        fns |-> << [name |-> "f", first |-> 0, last |-> 2], [name |-> "g", first |-> 3, last |-> 3] >>] }

\* find_function_bounds is called on any lines, extract_function_spans on a
\* source that parses
InitBounds ==
    /\ \/ /\ parsed \in { Source(ls, FALSE, <<>>) : ls \in SeqsUpTo(BoundsLines, MaxBoundsLines) }
          /\ function_name \in {"f", "g"}
          /\ pc = "lines"
       \/ /\ parsed \in { Source(s.lines, TRUE,
                                  [i \in DOMAIN s.fns |-> ItemFn(s.fns[i].name, <<>>)]) :
                            s \in BoundsSamples }
          /\ function_name = ""
          /\ pc = "source"
    /\ result = NoResult
    /\ stmts = <<>>
    /\ used = 0
    /\ complexity = 0
    /\ nesting_depth = 0
    /\ span = NoSpan
    /\ NoRun
    /\ stack = <<>>
    /\ visits = <<>>

FindFunctionBounds ==
    /\ pc = "lines"
    /\ pc' = "bounds"
    /\ result' = find_function_bounds(parsed.lines, function_name)
    /\ UNCHANGED <<stmts, used, complexity, nesting_depth, parsed, function_name, span,
                   runVars, stack, visits>>

ExtractFunctionSpans ==
    /\ pc = "source"
    /\ pc' = "spans"
    /\ result' = extract_function_spans(parsed)
    /\ UNCHANGED <<stmts, used, complexity, nesting_depth, parsed, function_name, span,
                   runVars, stack, visits>>

NextBounds ==
    \/ FindFunctionBounds
    \/ ExtractFunctionSpans

SpecBounds == InitBounds /\ [][NextBounds]_vars

\* ------------------------------------------------ reading the syntax tree
\* What a tree contains, read off the tree itself and not off the calculators.
SeqSet(xs) == { xs[i] : i \in DOMAIN xs }

ExprsOfStmts(b) ==
    { b[i].expr : i \in { j \in DOMAIN b : b[j].kind = "Expr" } }
        \cup { b[i].init[1] : i \in { j \in DOMAIN b : b[j].kind = "Local" /\ b[j].init # None } }

NestedFns(b) ==
    { b[i].item : i \in { j \in DOMAIN b : b[j].kind = "Item" /\ b[j].item.kind = "Fn" } }

Blocks(e) ==
    CASE e.kind = "If" -> { e.then_branch }
      [] e.kind \in {"While", "ForLoop", "Loop"} -> { e.body }
      [] e.kind \in {"Block", "Unsafe", "Async"} -> { e.block }
      [] OTHER -> {}

DirectExprs(e) ==
    CASE e.kind = "If" -> { e.cond } \cup SeqSet(e.else_branch)
      [] e.kind = "Match" ->
            { e.expr } \cup { e.arms[i].body : i \in DOMAIN e.arms }
                \cup UNION { SeqSet(e.arms[i].guard) : i \in DOMAIN e.arms }
      [] e.kind = "While" -> { e.cond }
      [] e.kind = "ForLoop" -> { e.expr }
      [] e.kind \in {"Binary", "Assign"} -> { e.left, e.right }
      [] e.kind \in {"Try", "Reference", "Unary", "Cast", "Paren", "Group", "Let"} ->
            { e.expr }
      [] e.kind \in {"Return", "Break"} -> SeqSet(e.expr)
      [] e.kind = "Closure" -> { e.body }
      [] e.kind = "Call" -> { e.func } \cup SeqSet(e.args)
      [] e.kind = "MethodCall" -> { e.receiver } \cup SeqSet(e.args)
      [] e.kind \in {"Array", "Tuple"} -> SeqSet(e.elems)
      [] e.kind \in {"Field", "Await"} -> { e.base }
      [] e.kind = "Index" -> { e.expr, e.index }
      [] e.kind = "Range" -> SeqSet(e.start) \cup SeqSet(e.end)
      [] e.kind = "Struct" -> SeqSet(e.fields) \cup SeqSet(e.rest)
      [] OTHER -> {}

RECURSIVE ExprsOfExpr(_, _)
RECURSIVE ExprsOfBlock(_, _)

\* every expression of a block; with `deep`, also those of nested function items
ExprsOfExpr(e, deep) ==
    {e} \cup UNION { ExprsOfExpr(c, deep) : c \in DirectExprs(e) }
        \cup UNION { ExprsOfBlock(b, deep) : b \in Blocks(e) }

ExprsOfBlock(b, deep) ==
    UNION { ExprsOfExpr(x, deep) : x \in ExprsOfStmts(b) }
        \cup (IF deep THEN UNION { ExprsOfBlock(f.block, deep) : f \in NestedFns(b) }
              ELSE {})

Tag(e) == IF e.kind = "Binary" THEN e.op ELSE e.kind

Tags(b, deep) == { Tag(e) : e \in ExprsOfBlock(b, deep) }

NestingTags ==
    { "If", "Match", "While", "ForLoop", "Loop", "Block", "Unsafe", "Async", "Closure" }

DecisionTags ==
    { "If", "Match", "While", "ForLoop", "Loop", "And", "Or", "Try", "Return",
      "Break", "Continue" }

NestingIn(e) == { x \in ExprsOfExpr(e, FALSE) : Tag(x) \in NestingTags }

IsLeaf(e) == e.kind \in {"Lit", "Path", "Macro"}

Done == pc = "done"

\* the one expression that makes up the body, as `e;` or as `let x = e;`
OnlyExpr == IF Len(stmts) = 1 /\ HasLastExpr(stmts) THEN Some(LastExpr(stmts)) ELSE None

\* -------------------------------------------------------------------- C1
\* C1: for every function body calculate_cyclomatic_complexity returns an
\* integer >= 1, and exactly 1 for a function with an empty body.
C1_ComplexityAtLeastOne ==
    Done => /\ complexity >= 1
            /\ stmts = <<>> => complexity = 1

C1_Witness == Done /\ stmts = <<>> /\ complexity = 1

\* -------------------------------------------------------------------- C2
WithoutNestedFns(b) == SelectSeq(b, LAMBDA s : ~(s.kind = "Item" /\ s.item.kind = "Fn"))

\* C2: a nested function item among the statements of a function's block
\* contributes nothing to the enclosing function: its complexity and nesting
\* depth are those of the block with the nested items left out.
C2_NestedItemContributesNothing ==
    Done =>
        /\ complexity = calculate_cyclomatic_complexity(ItemFn("f", WithoutNestedFns(stmts)))
        /\ nesting_depth = calculate_nesting_depth(ItemFn("f", WithoutNestedFns(stmts)))

\* -------------------------------------------------------------------- C3
IsPlainIfElse(e) ==
    /\ e.kind = "If"
    /\ e.else_branch # None
    /\ e.else_branch[1].kind = "Block"
    /\ NestingIn(e.cond) = {}
    /\ Tags(e.then_branch, FALSE) \cap NestingTags = {}
    /\ Tags(e.else_branch[1].block, FALSE) \cap NestingTags = {}

\* C3: a function whose body is a single if/else with no nesting construct
\* inside either branch has nesting depth 1.
C3_IfElseNestingIsOne ==
    (Done /\ OnlyExpr # None /\ IsPlainIfElse(OnlyExpr[1])) => nesting_depth = 1

\* -------------------------------------------------------------------- C4
IsPlainIf(e) ==
    /\ e.kind = "If"
    /\ e.else_branch = None
    /\ NestingIn(e.cond) = {}
    /\ Tags(e.then_branch, FALSE) \cap NestingTags = {}

IsClosureOfIf(e) == e.kind = "Closure" /\ IsPlainIf(e.body)

IsClosureOfBlockOfIf(e) ==
    /\ e.kind = "Closure"
    /\ e.body.kind = "Block"
    /\ Len(e.body.block) = 1
    /\ e.body.block[1].kind = "Expr"
    /\ IsPlainIf(e.body.block[1].expr)

\* C4 as stated: a function whose nesting constructs are a closure and a
\* single `if` inside the closure's body (the body written with or without
\* braces) has nesting depth 2.
C4_ClosureIfNestingIsTwo ==
    (Done /\ OnlyExpr # None
          /\ (IsClosureOfIf(OnlyExpr[1]) \/ IsClosureOfBlockOfIf(OnlyExpr[1])))
        => nesting_depth = 2

\* C4 amended: the depth is 2 when the closure's body is the `if` expression
\* itself, and 3 when the body is a brace-delimited block holding the `if`:
\* the block is a level of its own.
C4_ClosureIfNesting ==
    (Done /\ OnlyExpr # None) =>
        /\ IsClosureOfIf(OnlyExpr[1]) => nesting_depth = 2
        /\ IsClosureOfBlockOfIf(OnlyExpr[1]) => nesting_depth = 3

C4_Witness ==
    /\ Done
    /\ stmts = <<StmtLocal(Some(Closure(Block(<<StmtExpr(If(Lit, <<>>, None))>>))))>>
    /\ nesting_depth = 3

\* -------------------------------------------------------------------- C5
RECURSIVE ArmsContribution(_)
ArmsContribution(arms) ==
    IF arms = <<>> THEN 0
    ELSE 1 + (IF Head(arms).guard # None THEN analyze_expression(Head(arms).guard[1]) ELSE 0)
           + analyze_expression(Head(arms).body)
           + ArmsContribution(Tail(arms))

IsLeafMatch(e) ==
    /\ e.kind = "Match"
    /\ IsLeaf(e.expr)
    /\ \A i \in DOMAIN e.arms :
          /\ IsLeaf(e.arms[i].body)
          /\ e.arms[i].guard # None => IsLeaf(e.arms[i].guard[1])

\* C5: a match contributes 1 + the scrutinee's contribution + the sum over
\* its arms of (1 + the guard's contribution if there is a guard + the body's
\* contribution); a function whose body is one match with N arms, with leaf
\* scrutinee, guards and bodies, has complexity 1 + 1 + N.
C5_MatchArmsEachAddOne ==
    Done =>
        /\ \A e \in ExprsOfBlock(stmts, FALSE) :
              e.kind = "Match" =>
                  analyze_expression(e)
                      = 1 + analyze_expression(e.expr) + ArmsContribution(e.arms)
        /\ (OnlyExpr # None /\ IsLeafMatch(OnlyExpr[1]))
              => complexity = 1 + 1 + Len(OnlyExpr[1].arms)

C5_Witness ==
    /\ Done
    /\ stmts = <<StmtExpr(Match(Lit, <<Arm(None, Lit), Arm(Some(Lit), Lit)>>))>>
    /\ complexity = 4

\* -------------------------------------------------------------------- C6
IsAndOrCondition(c) ==
    /\ c.kind = "Binary" /\ c.op = "Or" /\ IsLeaf(c.right)
    /\ c.left.kind = "Binary" /\ c.left.op = "And"
    /\ IsLeaf(c.left.left) /\ IsLeaf(c.left.right)

\* C6: a binary operation with && or || contributes 1 plus its operands'
\* contributions, any other binary operation only its operands'; an `if`
\* whose condition is `a && b || c` so gets 2 on top of its own 1.
C6_ShortCircuitOperatorsAddOne ==
    Done =>
        /\ \A e \in ExprsOfBlock(stmts, FALSE) :
              e.kind = "Binary" =>
                  analyze_expression(e)
                      = (IF e.op \in {"And", "Or"} THEN 1 ELSE 0)
                            + analyze_expression(e.left) + analyze_expression(e.right)
        /\ \A e \in ExprsOfBlock(stmts, FALSE) :
              (e.kind = "If" /\ IsAndOrCondition(e.cond)) =>
                  analyze_expression(e)
                      = 1 + 2 + analyze_block(e.then_branch)
                          + (IF e.else_branch # None
                             THEN analyze_expression(e.else_branch[1]) ELSE 0)

C6_Witness ==
    /\ Done
    /\ stmts = <<StmtExpr(If(Binary("Or", Binary("And", Lit, Lit), Lit), <<>>, None))>>
    /\ complexity = 4

\* -------------------------------------------------------------------- C7
IsEmptyLoop(e) ==
    \/ e.kind = "While" /\ IsLeaf(e.cond) /\ e.body = <<>>
    \/ e.kind = "ForLoop" /\ IsLeaf(e.expr) /\ e.body = <<>>
    \/ e.kind = "Loop" /\ e.body = <<>>

\* C7: a while, for or loop with an empty body (and a leaf condition or
\* iterable) contributes exactly 1 to complexity, and a function whose only
\* construct is one such loop has nesting depth 1.
C7_EmptyLoops ==
    Done =>
        /\ \A e \in ExprsOfBlock(stmts, FALSE) : IsEmptyLoop(e) => analyze_expression(e) = 1
        /\ (OnlyExpr # None /\ IsEmptyLoop(OnlyExpr[1]))
              => (complexity = 2 /\ nesting_depth = 1)

C7_Witness ==
    /\ Done
    /\ stmts = <<StmtExpr(Loop(<<>>))>>
    /\ complexity = 2
    /\ nesting_depth = 1

\* -------------------------------------------------------------------- C8
\* C8: a function body with no branching, looping or logical construct and
\* no nesting-increasing construct anywhere in it has complexity 1 and
\* nesting depth 0.
C8_NoConstructsGivesOneAndZero ==
    (Done /\ Tags(stmts, TRUE) \cap (DecisionTags \cup NestingTags) = {})
        => (complexity = 1 /\ nesting_depth = 0)

\* -------------------------------------------------------------------- C9
HasTopLevelFn(source, name) ==
    \E i \in DOMAIN source.items :
        source.items[i].kind = "Fn" /\ source.items[i].name = name

\* C9: when the source fails to parse or has no top-level function of the
\* name looked up, calculate_cyclomatic_complexity_from_source returns 1 and
\* calculate_nesting_depth_from_source returns 0 (both are total: they
\* return a number in every case).
C9_NotFoundDefaults ==
    /\ pc \in {"complexity", "looked_up"} => complexity \in Nat
    /\ pc = "looked_up" =>
          /\ nesting_depth \in Nat
          /\ (~parsed.ok \/ ~HasTopLevelFn(parsed, function_name))
                => (complexity = 1 /\ nesting_depth = 0)

\* the name is missing while another function of the file has complexity 3
C9_Witness ==
    /\ pc = "looked_up"
    /\ parsed.ok
    /\ ~HasTopLevelFn(parsed, function_name)
    /\ \E i \in DOMAIN parsed.items :
          /\ parsed.items[i].kind = "Fn"
          /\ calculate_cyclomatic_complexity(parsed.items[i]) = 3
    /\ complexity = 1
    /\ nesting_depth = 0

\* ------------------------------------------------------------------- C10
\* C10: for every span, also the empty one, count_function_lines returns
\* total = code + comment + empty with total the number of lines of the
\* span, and the record analyze_function_complete builds keeps both.
C10_LineCountsAddUp ==
    /\ pc = "counted" =>
          /\ result.counts[1] = Len(span.lines)
          /\ result.counts[1] = result.counts[2] + result.counts[3] + result.counts[4]
    /\ pc = "analyzed" =>
          /\ result.total = Len(span.lines)
          /\ result.total = result.code + result.comment + result.empty

C10_Witness ==
    /\ pc = "analyzed"
    /\ span.lines = << <<"f", "n", " ", "f", "{">>, <<"/", "/", " ", "c">>, <<>> >>
    /\ result.total = 3
    /\ result.code = 1
    /\ result.comment = 1
    /\ result.empty = 1

\* ------------------------------------------------------------------- C11
\* the class of a line, read off the characters of the line
FirstInk(line) ==
    IF \A i \in DOMAIN line : IsWhitespace(line[i]) THEN 0
    ELSE CHOOSE i \in DOMAIN line :
            /\ ~IsWhitespace(line[i])
            /\ \A j \in 1..(i - 1) : IsWhitespace(line[j])

LineClass(line) ==
    LET k == FirstInk(line)
    IN IF k = 0 THEN "empty"
       ELSE IF k < Len(line) /\ line[k] = "/" /\ line[k + 1] \in {"/", "*"} THEN "comment"
       ELSE "code"

LinesOfClass(lines, c) == Cardinality({ i \in DOMAIN lines : LineClass(lines[i]) = c })

TrailingCommentLine == <<"c", ";", " ", "/", "/", "c">>

ContinuationLine == <<" ", "c", "*", "/">>

RecordsOfFile(path) ==
    LET source == read_to_string(path).source
        function_spans == extract_function_spans(source).value
    IN [i \in DOMAIN function_spans |->
          [analyze_function_complete(function_spans[i], source) EXCEPT
              !.name = path \o <<":", ":">> \o NameChars(function_spans[i].name)]]

RECURSIVE RecordsOfFiles(_)
RecordsOfFiles(paths) ==
    IF paths = <<>> THEN <<>>
    ELSE RecordsOfFile(Head(paths)) \o RecordsOfFiles(Tail(paths))

AnalysisReturned == pc \in {"analyzed", "returned"}

\* C12: analyze_all_files returns one flat list holding exactly the records
\* of every file's extracted functions, files in the order given and the
\* functions of a file in extraction order, unsorted, each record named
\* `<file path>::<function name>`; an empty list of paths gives an empty list.
C12_FlatListInDiscoveryOrder ==
    AnalysisReturned =>
        /\ all_results = RecordsOfFiles(files.value)
        /\ files.value = <<>> => all_results = <<>>

\* ------------------------------------------------------------------- C13
IsBadFile(path) ==
    \/ ~read_to_string(path).readable
    \/ ~read_to_string(path).source.ok

GoodFiles(paths) == SelectSeq(paths, LAMBDA p : ~IsBadFile(p))

\* C13: in a run over several files, a file that cannot be read or cannot be
\* parsed is skipped and the records of all the other files are still
\* produced: a bad file never aborts the run.
C13_BadFileIsSkipped ==
    /\ pc # "panicked"
    /\ AnalysisReturned =>
          Len(all_results) = Len(RecordsOfFiles(GoodFiles(files.value)))

\* ------------------------------------------------------------------- C14
\* the file name is something, then `.rs`
HasRsExtension(path) ==
    LET name == file_name(path)
    IN Len(name) > 3 /\ SubSeq(name, Len(name) - 2, Len(name)) = <<".", "r", "s">>

WalkFailed == \E i \in DOMAIN walk : ~walk[i].ok

RsEntries == SelectSeq(walk, LAMBDA e : HasRsExtension(e.path))

Utf8RsEntries == SelectSeq(walk, LAMBDA e : HasRsExtension(e.path) /\ e.utf8)

Scanned == pc \in {"found", "exit"}

\* C14 as stated: find_rust_files returns an error when the directory does
\* not exist or cannot be walked, the NoRustFiles error when the walk finds
\* no file with extension rs, and otherwise Ok with a non-empty list that
\* contains only paths whose extension is rs.
C14_ScanResult ==
    Scanned =>
        IF WalkFailed
        THEN ~files.ok /\ files.error.kind \in {"DirectoryNotAccessible", "Io"}
        ELSE IF RsEntries = <<>>
        THEN files = Err(NoRustFiles(cli.directory))
        ELSE /\ files.ok
             /\ files.value # <<>>
             /\ \A i \in DOMAIN files.value : HasRsExtension(files.value[i])

\* C14 amended: an entry whose path is not valid UTF-8 is left out, so the
\* NoRustFiles error is returned when the walk yields no entry with
\* extension rs and a UTF-8 path, and otherwise the list is exactly the
\* UTF-8 paths with extension rs, in walk order.
C14_ScanResultUtf8 ==
    Scanned =>
        IF WalkFailed
        THEN ~files.ok /\ files.error.kind \in {"DirectoryNotAccessible", "Io"}
        ELSE IF Utf8RsEntries = <<>>
        THEN files = Err(NoRustFiles(cli.directory))
        ELSE /\ files.ok
             /\ files.value # <<>>
             /\ files.value = [i \in DOMAIN Utf8RsEntries |-> Utf8RsEntries[i].path]

C14_Witness ==
    /\ pc = "found"
    /\ Len(walk) = 3
    /\ ~walk[2].utf8
    /\ file_name(walk[3].path) = <<"a", ".", "r", "s">>
    /\ files = Ok(<<walk[3].path>>)

\* ------------------------------------------------------------------- C16
\* the records of the printed rows, in the order printed
Displayed ==
    LET rows == SelectSeq(output, LAMBDA l : l.line \in {"TableRow", "CsvRow", "JsonRow"})
    IN [i \in DOMAIN rows |-> rows[i].result]

\* C16: run with --min-lines N, the tool displays only functions whose total
\* line count is at least N.
C16_MinLinesFilter ==
    pc = "displayed" =>
        \A i \in DOMAIN Displayed : Displayed[i].total >= cli.min_lines

\* ------------------------------------------------------------------- C20
Occurrences(xs, x) == Cardinality({ i \in DOMAIN xs : xs[i] = x })

\* C20: display_results_sorted_by_code emits the records in non-increasing
\* order of their code-line count, and what it emits is a permutation of the
\* records it was given.
C20_SortedByCodeDescending ==
    pc = "displayed" =>
        /\ \A i, j \in DOMAIN Displayed : i < j => Displayed[i].code >= Displayed[j].code
        /\ Len(Displayed) = Len(all_results)
        /\ \A i \in DOMAIN all_results :
              Occurrences(Displayed, all_results[i]) = Occurrences(all_results, all_results[i])

C20_Witness ==
    /\ pc = "displayed"
    /\ Len(all_results) = 3
    /\ all_results[1].code = 1 /\ all_results[2].code = 3 /\ all_results[3].code = 1
    /\ Displayed = <<all_results[2], all_results[1], all_results[3]>>

\* ------------------------------------------------------------------- C17
\* the arms of the chain whose body is written in braces
RECURSIVE BraceArms(_)
BraceArms(b) ==
    IF b = <<>> THEN 0
    ELSE LET e == b[1].expr
         IN CASE e.kind = "If" -> BraceArms(e.then_branch)
              [] e.kind \in {"While", "ForLoop", "Loop"} -> BraceArms(e.body)
              [] e.kind = "Match" ->
                    IF e.arms[1].body.kind = "Block"
                    THEN 1 + BraceArms(e.arms[1].body.block)
                    ELSE IF e.arms[1].body.kind = "Lit" THEN 0
                    ELSE BraceArms(<<StmtExpr(e.arms[1].body)>>)

\* C17 as stated: N >= 1 control constructs nested one inside the body of the
\* previous, with no else branch, give nesting depth N (`used` is the number
\* of constructs of the chain).
C17_ChainOfNGivesN == (Done /\ used >= 1) => nesting_depth = used

\* C17 amended: the depth is N plus the number of match arms of the chain
\* whose body is written in braces; one `if` gives 1, and the chain of
\* test_deep_nesting (if, for, while, match with a brace arm, if) gives 6.
C17_ChainDepth ==
    Done =>
        /\ nesting_depth = used + BraceArms(stmts)
        /\ stmts = <<StmtExpr(If(Lit, <<>>, None))>> => nesting_depth = 1

DeepNesting ==
    <<StmtExpr(If(Lit,
        <<StmtExpr(ForLoop(Lit,
            <<StmtExpr(While(Lit,
                <<StmtExpr(Match(Lit,
                    <<Arm(None, Block(
                        <<StmtExpr(If(Lit, <<>>, None))>>))>>))>>))>>))>>, None))>>

C17_Witness == Done /\ stmts = DeepNesting /\ used = 5 /\ nesting_depth = 6

\* ------------------------------------------------------------------- C19
\* a branch with nothing in it that counts: leaf expressions, macros, items
\* other than functions
IsPlainBranch(b) ==
    \A i \in DOMAIN b :
        \/ b[i].kind = "Expr" /\ IsLeaf(b[i].expr)
        \/ b[i].kind = "Macro"
        \/ b[i].kind = "Local" /\ b[i].init = None
        \/ b[i].kind = "Item" /\ b[i].item.kind # "Fn"

\* if / else if / ... / else with leaf conditions and plain branches
RECURSIVE IsLeafIfChain(_)
IsLeafIfChain(e) ==
    /\ e.kind = "If"
    /\ IsLeaf(e.cond)
    /\ IsPlainBranch(e.then_branch)
    /\ \/ e.else_branch = None
       \/ e.else_branch # None /\ e.else_branch[1].kind = "Block"
            /\ IsPlainBranch(e.else_branch[1].block)
       \/ e.else_branch # None /\ IsLeafIfChain(e.else_branch[1])

RECURSIVE Conditions(_)
Conditions(e) ==
    1 + (IF e.else_branch # None /\ e.else_branch[1].kind = "If"
         THEN Conditions(e.else_branch[1]) ELSE 0)

\* what the else branch holds: the statements of its block, or the next `if`
ElseContents(e) ==
    IF e.else_branch = None THEN 0
    ELSE IF e.else_branch[1].kind = "Block" THEN analyze_block(e.else_branch[1].block)
    ELSE analyze_expression(e.else_branch[1])

\* C19: an `if` contributes exactly 1 for its condition whether or not it has
\* an else; the else adds no unit of its own, only what it contains; an
\* if / else-if / else chain with k conditions, leaf conditions and plain
\* branches, contributes exactly k.
C19_IfCountsOnceElseNothing ==
    Done =>
        \A e \in ExprsOfBlock(stmts, FALSE) :
            e.kind = "If" =>
                /\ analyze_expression(e)
                      = 1 + analyze_expression(e.cond) + analyze_block(e.then_branch)
                          + ElseContents(e)
                /\ IsLeafIfChain(e) => analyze_expression(e) = Conditions(e)

C19_Witness ==
    /\ Done
    /\ stmts = <<StmtExpr(If(Lit, <<>>, Some(If(Lit, <<>>, Some(Block(<<>>))))))>>
    /\ complexity = 3

\* ------------------------------------------------------------------- C18
NoCallTwice == \A i, j \in DOMAIN visits : i # j => visits[i] # visits[j]

Walked == pc = "walked"

\* C18: both traversals terminate on every function body: each makes at most
\* one call per node of the tree and returns after finitely many calls, with
\* the value of the calculator.
C18_TraversalsTerminate ==
    /\ [](NoCallTwice)
    /\ [](Walked => \/ /\ visits # <<>>
                        /\ complexity = calculate_cyclomatic_complexity(func)
                        /\ nesting_depth = 0
                     \/ /\ visits # <<>>
                        /\ nesting_depth = calculate_nesting_depth(func)
                        /\ complexity = 0)
    /\ <>Walked

C18_Witness ==
    /\ Walked
    /\ stmts = << StmtExpr(Match(Path, <<Arm(Some(Lit), Try(Lit)), Arm(None, Block(<<>>))>>)),
                  StmtItem(ItemFn("inner", <<StmtExpr(Loop(<<>>))>>)) >>
    /\ complexity = 7
    /\ Len(visits) = 19

\* ------------------------------------------------------------------- C21
\* the node of the tree a place leads to, with the kind of call made on it
RECURSIVE NodeAt(_)
NodeAt(at) ==
    IF at = <<>> THEN [t |-> "function", n |-> func]
    ELSE LET o == NodeAt(SubSeq(at, 1, Len(at) - 1))
             s == at[Len(at)]
             part == IF s.i = 0 THEN o.n[s.f] ELSE o.n[s.f][s.i]
         IN CASE o.t = "function" -> [t |-> "block", n |-> o.n.block]
              [] o.t = "block" -> [t |-> "statement", n |-> o.n[s.i]]
              [] o.t = "statement" ->
                    [t |-> IF s.f = "item" THEN "item" ELSE "expression", n |-> part]
              [] o.t = "item" -> [t |-> "function", n |-> o.n]
              [] o.t = "arm" -> [t |-> "expression", n |-> part]
              [] o.t = "expression" ->
                    [t |-> CASE s.f \in {"then_branch", "block"} -> "block"
                             [] s.f = "body" ->
                                   IF o.n.kind = "Closure" THEN "expression" ELSE "block"
                             [] s.f = "arms" -> "arm"
                             [] OTHER -> "expression",
                     n |-> part]

\* the construct an expression, block or arm belongs to
Owner(at) == NodeAt(SubSeq(at, 1, Len(at) - 1))

\* how many bodies, branches, arms and blocks of expressions a place lies in
Inside(at) ==
    Cardinality({ k \in DOMAIN at :
                    /\ NodeAt(SubSeq(at, 1, k - 1)).t = "expression"
                    /\ at[k].f \in {"then_branch", "else_branch", "body", "block", "arms"} })

PendingNesting == { stack[k] : k \in { j \in DOMAIN stack : stack[j].calc = "nesting" } }

IsHeaderOf(c) ==
    /\ c.at # <<>>
    /\ Owner(c.at).t = "expression"
    /\ Owner(c.at).n.kind \in {"If", "While", "Match", "ForLoop"}
    /\ c.at[Len(c.at)].f \in {"cond", "expr"}

IsBodyOf(c) ==
    /\ c.at # <<>>
    /\ Owner(c.at).t = "expression"
    /\ Owner(c.at).n.kind \in {"If", "While", "Match", "ForLoop"}
    /\ c.at[Len(c.at)].f \in {"then_branch", "else_branch", "body", "arms"}

\* C21: the nesting calculator measures the condition of an `if` or `while`,
\* the scrutinee of a `match` and the iterable of a `for` at the depth of the
\* construct itself, and its body, branches and arms one level deeper.
C21_HeadersAtCurrentDepth ==
    \A c \in PendingNesting :
        /\ IsHeaderOf(c) => c.depth = Inside(SubSeq(c.at, 1, Len(c.at) - 1))
        /\ IsBodyOf(c) => c.depth = Inside(SubSeq(c.at, 1, Len(c.at) - 1)) + 1

\* the closure in the header of the `for` in the header of the `while` in the
\* header of the `match` in the header of the `if` is about to be measured
C21_Witness ==
    /\ pc = "walking"
    /\ stack # <<>>
    /\ Head(stack).calc = "nesting"
    /\ Head(stack).fn = "expression"
    /\ Head(stack).arg.kind = "Closure"
    /\ IsHeaderOf(Head(stack))
    /\ Owner(Head(stack).at).n.kind = "ForLoop"
    /\ Head(stack).depth = 0
    /\ nesting_depth = 1

\* ------------------------------------------------------------------- C22
IsOfArm(c) == c.at # <<>> /\ Owner(c.at).t = "arm"

\* C22: the nesting calculator measures the guard and the body of every
\* match arm one level deeper than the match.
C22_GuardAndBodyOneDeeper ==
    \A c \in PendingNesting :
        IsOfArm(c) =>
            /\ c.at[Len(c.at)].f \in {"guard", "body"}
            /\ c.depth = Inside(SubSeq(c.at, 1, Len(c.at) - 2)) + 1

C22_Witness ==
    /\ pc = "walking"
    /\ Len(stack) >= 2
    /\ stack[1].calc = "nesting"
    /\ IsOfArm(stack[1]) /\ stack[1].at[Len(stack[1].at)].f = "guard"
    /\ IsOfArm(stack[2]) /\ stack[2].at[Len(stack[2].at)].f = "body"
    /\ stack[1].depth = 1
    /\ stack[2].depth = 1

\* ------------------------------------------------------------------- C23
IsExit(e) == e.kind \in {"Return", "Break", "Continue", "Try"}

\* the operand of an early exit, when it has one
ExitOperand(e) ==
    CASE e.kind = "Try" -> Some(e.expr)
      [] e.kind \in {"Return", "Break"} -> e.expr
      [] OTHER -> None

\* early exits around early exits, down to a literal, a path or a macro
RECURSIVE IsExitChain(_)
IsExitChain(e) ==
    \/ IsLeaf(e)
    \/ IsExit(e) /\ \A x \in SeqSet(ExitOperand(e)) : IsExitChain(x)

RECURSIVE ExitsOfChain(_)
ExitsOfChain(e) ==
    IF ~IsExit(e) THEN 0
    ELSE IF ExitOperand(e) = None THEN 1
    ELSE 1 + ExitsOfChain(ExitOperand(e)[1])

RECURSIVE ExitsOfStmts(_)
ExitsOfStmts(b) ==
    IF b = <<>> THEN 0 ELSE ExitsOfChain(Head(b).expr) + ExitsOfStmts(Tail(b))

FinalIsReturn ==
    /\ stmts # <<>>
    /\ stmts[Len(stmts)].kind = "Expr"
    /\ stmts[Len(stmts)].expr.kind = "Return"

\* C24: a `return` that is the last statement of the function body is not a
\* decision point: it adds what its value adds and nothing of its own.
C24_FinalReturnNotCounted ==
    (Done /\ FinalIsReturn) =>
        complexity
            = calculate_cyclomatic_complexity(
                 ItemFn("f", SubSeq(stmts, 1, Len(stmts) - 1)))
                + SumExpressions(stmts[Len(stmts)].expr.expr)

\* ------------------------------------------------------------------- C25
RECURSIVE SyntacticDepthOfExpr(_)
RECURSIVE SyntacticDepthOfBlock(_)

\* how deep the nesting constructs of the text lie inside one another: every
\* if, match, loop, block and closure is one level, wherever it stands; the
\* braces of an `else` are a branch of their `if`, not a block of their own
SyntacticDepthOfExpr(e) ==
    LET parts == IF e.kind = "If" /\ e.else_branch # None /\ e.else_branch[1].kind = "Block"
                 THEN { SyntacticDepthOfExpr(e.cond), SyntacticDepthOfBlock(e.then_branch),
                        SyntacticDepthOfBlock(e.else_branch[1].block) }
                 ELSE { SyntacticDepthOfExpr(x) : x \in DirectExprs(e) }
                        \cup { SyntacticDepthOfBlock(b) : b \in Blocks(e) }
    IN (IF Tag(e) \in NestingTags THEN 1 ELSE 0) + MaxOf(parts \cup {0})

SyntacticDepthOfBlock(b) ==
    MaxOf({ SyntacticDepthOfExpr(x) : x \in ExprsOfStmts(b) } \cup {0})

\* the bodies with one more statement, at any place of the body
WithOneMoreStmt(b) ==
    { SubSeq(b, 1, i) \o <<s>> \o SubSeq(b, i + 1, Len(b)) :
        i \in 0..Len(b), s \in SeedStmts \cup OpaqueStmts \cup { StmtExpr(Loop(<<>>)) } }

\* C25: the nesting depth is at most the depth of syntactic nesting of the
\* body, and one more statement never lowers it.
C25_BoundedAndMonotone ==
    Done =>
        /\ nesting_depth <= SyntacticDepthOfBlock(stmts)
        /\ \A b \in WithOneMoreStmt(stmts) :
              calculate_nesting_depth(ItemFn("f", b)) >= nesting_depth

\* ------------------------------------------------------------------- C26
\* a match with one unguarded arm whose body is written in braces
IsMatchOfBlock(e) ==
    /\ e.kind = "Match"
    /\ IsLeaf(e.expr)
    /\ Len(e.arms) = 1
    /\ e.arms[1].guard = None
    /\ e.arms[1].body.kind = "Block"

IsBlockOfIf(e) ==
    /\ e.kind = "Block"
    /\ Len(e.block) = 1
    /\ e.block[1].kind = "Expr"
    /\ IsPlainIf(e.block[1].expr)

IsThreeBlocks(e) ==
    /\ e.kind = "Block"
    /\ e.block = <<StmtExpr(Block(<<StmtExpr(Block(<<>>))>>))>>

\* C26: the braces of a match-arm body or of a closure body are a level of
\* their own on top of the match or closure: with one `if` in the braces the
\* depth is 3, and whatever the braces hold lies two levels down; three bare
\* blocks inside one another give 3.
C26_BraceBodyIsALevel ==
    (Done /\ OnlyExpr # None) =>
        LET e == OnlyExpr[1]
        IN /\ IsMatchOfBlock(e) =>
                /\ nesting_depth
                      = 2 + calculate_nesting_depth(ItemFn("f", e.arms[1].body.block))
                /\ IsBlockOfIf(e.arms[1].body) => nesting_depth = 3
           /\ (e.kind = "Closure" /\ e.body.kind = "Block") =>
                /\ nesting_depth = 2 + calculate_nesting_depth(ItemFn("f", e.body.block))
                /\ IsBlockOfIf(e.body) => nesting_depth = 3
           /\ IsThreeBlocks(e) => nesting_depth = 3

C26_Witness ==
    /\ Done
    /\ stmts = <<StmtExpr(Match(Lit, <<Arm(None, Block(<<StmtExpr(If(Lit, <<>>, None))>>))>>))>>
    /\ nesting_depth = 3

\* ------------------------------------------------------------------- C27
\* the variants neither calculator has a case for
NoCaseKinds == {"Lit", "Path", "Macro", "Await", "Let"}

HasNoCase(call) ==
    \/ call.fn = "expression" /\ call.arg.kind \in NoCaseKinds
    \/ call.fn = "statement" /\ call.arg.kind = "Macro"

\* a pending call on something that lies under a variant without a case
UnderNoCase(call) ==
    \E k \in DOMAIN call.at :
        LET o == NodeAt(SubSeq(call.at, 1, k - 1))
        IN o.t = "expression" /\ o.n.kind \in NoCaseKinds

\* C27: both traversals are total: a variant without a case of its own adds
\* nothing to the complexity and reports the current depth, nothing under it
\* is ever visited, and a calculator that has calls left can always go on.
C27_TotalWithZeroDefault ==
    /\ [][(stack # <<>> /\ HasNoCase(Head(stack))) =>
             /\ stack' = Tail(stack)
             /\ complexity' = complexity
             /\ nesting_depth'
                   = IF Head(stack).calc = "nesting"
                     THEN Max(nesting_depth, Head(stack).depth) ELSE nesting_depth]_vars
    /\ [](\A k \in DOMAIN stack : ~UnderNoCase(stack[k]))
    /\ []((pc = "walking") => ENABLED Enter)

\* `unsafe { async { loop {}.await } }`: the loop under the await is not seen
C27_Witness ==
    /\ Walked
    /\ stmts = <<StmtExpr(Unsafe(<<StmtExpr(Async(<<StmtExpr(Await(Loop(<<>>)))>>))>>))>>
    /\ Len(visits) = 10
    /\ nesting_depth = 2
    /\ complexity = 0

\* ------------------------------------------------------------------- C28
\* the body with two of its statements changing places
Swapped(b, i, j) == [b EXCEPT ![i] = b[j], ![j] = b[i]]

\* C28: the nesting depth is a maximum and not a sum: the depth of a body is
\* the largest of the depths of its statements taken one at a time, sibling
\* `if`s give 1 however many they are, the two sides of a binary operation
\* are combined by maximum, and the order of the statements does not matter.
C28_MaximumNotSum ==
    Done =>
        /\ nesting_depth
              = MaxOf({ calculate_nesting_depth(ItemFn("f", <<stmts[i]>>)) : i \in DOMAIN stmts }
                        \cup {0})
        /\ (stmts # <<>> /\ \A i \in DOMAIN stmts :
                                stmts[i].kind = "Expr" /\ IsPlainIf(stmts[i].expr))
              => nesting_depth = 1
        /\ \A i, j \in DOMAIN stmts :
              calculate_nesting_depth(ItemFn("f", Swapped(stmts, i, j))) = nesting_depth
        /\ \A e \in ExprsOfBlock(stmts, FALSE) :
              e.kind = "Binary" =>
                 analyze_expression_nesting(e, 0)
                    = Max(analyze_expression_nesting(e.left, 0),
                          analyze_expression_nesting(e.right, 0))

C28_Witness ==
    /\ Done
    /\ stmts = <<StmtExpr(If(Lit, <<>>, None)), StmtExpr(If(Lit, <<>>, None))>>
    /\ nesting_depth = 1

\* ------------------------------------------------------------------- C29
\* the characters of the lines from line `start` on (lines counted from 0),
\* each with the line it stands on
RECURSIVE CharsFrom(_, _)
CharsFrom(lines, start) ==
    IF start >= Len(lines) THEN <<>>
    ELSE [k \in DOMAIN lines[start + 1] |-> [i |-> start, ch |-> lines[start + 1][k]]]
            \o CharsFrom(lines, start + 1)

\* opening minus closing braces among the first k characters
Balance(cs, k) ==
    Cardinality({ m \in 1..k : cs[m].ch = "{" }) - Cardinality({ m \in 1..k : cs[m].ch = "}" })

\* the closing braces that bring the count to zero
Closers(cs) == { k \in DOMAIN cs : cs[k].ch = "}" /\ Balance(cs, k) = 0 }

MinOf(S) == CHOOSE x \in S : \A y \in S : x <= y

\* the lines that contain `fn <name>`
Mentions(lines, name) ==
    { i \in 0..(Len(lines) - 1) :
        contains(lines[i + 1], <<"f", "n", " ">> \o NameChars(name)) }

\* C29: find_function_bounds returns (start, end) with 0 <= start <= end <
\* number of lines, start the first line containing `fn <name>` and end the
\* first line on which a closing brace brings the count of braces since the
\* start line to zero, and None when there is no such start or no such end;
\* every span extract_function_spans builds is a non-empty run of lines of
\* the source.
C29_BoundsWithinLines ==
    /\ pc = "bounds" =>
          LET lines == parsed.lines
              starts == Mentions(lines, function_name)
              cs == CharsFrom(lines, MinOf(starts))
          IN IF starts = {} \/ Closers(cs) = {}
             THEN result = None
             ELSE /\ result = Some(<<MinOf(starts), cs[MinOf(Closers(cs))].i>>)
                  /\ 0 <= result[1][1]
                  /\ result[1][1] <= result[1][2]
                  /\ result[1][2] < Len(lines)
    /\ pc = "spans" =>
          /\ result.ok
          /\ \A k \in DOMAIN result.value :
                /\ result.value[k].lines # <<>>
                /\ \E a, b \in DOMAIN parsed.lines :
                      a <= b /\ result.value[k].lines = SubSeq(parsed.lines, a, b)

\* `fn g(){` / `if x {` / `}}`: found on line 0, closed on line 2
C29_Witness ==
    /\ pc = "bounds"
    /\ function_name = "g"
    /\ parsed.lines = << <<"f", "n", " ", "g", "(", ")", "{">>,
                         <<"i", "f", " ", "x", " ", "{">>,
                         <<"}", "}">> >>
    /\ result = Some(<<0, 2>>)

\* ------------------------------------------------------------------- C30
\* what the source really declares
Declared == (CHOOSE s \in BoundsSamples : s.lines = parsed.lines).fns

\* C30: the span returned under the name of a top-level function covers the
\* lines from the function's own declaration to its own closing brace, also
\* when `fn <name>` occurs earlier in the text or braces occur in strings or
\* comments.
C30_SpanIsTheFunction ==
    pc = "spans" =>
        /\ result.ok
        /\ Len(result.value) = Len(Declared)
        /\ \A k \in DOMAIN Declared :
              /\ result.value[k].name = Declared[k].name
              /\ result.value[k].lines
                    = SubSeq(parsed.lines, Declared[k].first + 1, Declared[k].last + 1)

====
